---- MODULE Spec2Model ----
(***************************************************************************)
(* Model of wxdump_rs: the page-format decryption engine                   *)
(* (core::decryption::decrypt_database_file and wx_core::decryption::      *)
(* decrypt) and the key resolver of core::info_extractor.                  *)
(*                                                                         *)
(* Bytes are abstracted per segment of a page: every 4096-byte page is cut *)
(* at the offsets the code slices at (0, 16, 4048, 4064, 4084, 4096) and   *)
(* each segment carries one abstract value.  Byte lengths and offsets keep *)
(* their real values.                                                      *)
(***************************************************************************)
EXTENDS Integers, Sequences, FiniteSets, TLC

\* ---------------------------------------------------------------- bounds
MaxPages == 2
ValMod == 2
MaxProcs == 2
MaxRegions == 2
MaxFiles == 2
MaxOffs == 2
MaxSwitches == 2
MaxPieces == 3
MaxCut == 3
MaxMatches == 2
PatLen == 4

\* ------------------------------------------------------ program constants
KEY_SIZE == 32
DEFAULT_PAGESIZE == 4096
SALT_SIZE == 16
IV_SIZE == 16
HMAC_SHA1_SIZE == 20
RESERVED_SIZE == 48
AES_BLOCK_SIZE == 16
KEY_HEX_LEN == 64
KDF_ITERS == 64000
MAC_KDF_ITERS == 2
SQLITE_FILE_HEADER == "SQLite format 3\\0"

Val == 0 .. (ValMod - 1)
Salts == {0, 1}
PwIds == {0, 1}

\* Offsets inside a page at which the code slices.
SegBounds ==
    << 0,
       SALT_SIZE,
       DEFAULT_PAGESIZE - RESERVED_SIZE,
       DEFAULT_PAGESIZE - RESERVED_SIZE + IV_SIZE,
       DEFAULT_PAGESIZE - RESERVED_SIZE + IV_SIZE + HMAC_SHA1_SIZE,
       DEFAULT_PAGESIZE >>

NumSegs == Len(SegBounds) - 1

\* ------------------------------------------------------------ primitives
\* PBKDF2-HMAC-SHA1: a deterministic, injective function of its arguments.
Pbkdf2(password, salt, iters) == [pw |-> password, salt |-> salt, iters |-> iters]

\* salt[i] ^ 0x3A for every byte: a fixed-point-free bijection on salts.
MacSalt(salt) == (salt + 1) % ValMod

\* HMAC-SHA1 over the updates fed to it, collision-free; flip = 0 for a
\* value as computed, and /= 0 for a stored value that was altered afterwards.
HmacSha1(key, updates) == [h |-> <<key, updates>>, flip |-> 0]

\* 1u32.to_le_bytes()
LE32(n) == [bytes |-> 4, segs |-> <<n>>]

\* The AES-256 block permutation selected by the key material.
KeyNum(k) == (k.pw.val + k.pw.n + k.salt + 1) % ValMod
AesEncryptBlock(k, p) == (p + KeyNum(k)) % ValMod
AesDecryptBlock(k, c) == (c + ValMod - KeyNum(k)) % ValMod

\* CBC chaining (the XOR of the block with the previous ciphertext block is
\* the group operation of Val).
CbcDecrypt(k, iv, blocks) ==
    [n \in 1 .. Len(blocks) |->
        (AesDecryptBlock(k, blocks[n]) + ValMod
            - (IF n = 1 THEN iv ELSE blocks[n - 1])) % ValMod]

RECURSIVE CbcEncrypt(_, _, _)
CbcEncrypt(k, iv, blocks) ==
    IF blocks = <<>> THEN <<>>
    ELSE LET c == AesEncryptBlock(k, (Head(blocks) + iv) % ValMod)
         IN  <<c>> \o CbcEncrypt(k, c, Tail(blocks))

\* ------------------------------------------------------------ byte slices
\* data = [len, pages]; pages[p] = <<seg1, .., seg5>>.  All whole pages of
\* the file carry segment values; the bytes after the last whole page carry
\* none (the code never looks at them).
AllSegs(data) ==
    [n \in 1 .. (NumSegs * Len(data.pages)) |->
        LET p == (n - 1) \div NumSegs
            s == ((n - 1) % NumSegs) + 1
        IN  [start |-> p * DEFAULT_PAGESIZE + SegBounds[s],
             end   |-> p * DEFAULT_PAGESIZE + SegBounds[s + 1],
             val   |-> data.pages[p + 1][s]]]

\* &data[lo..hi] is in range (Rust panics otherwise).
SliceOK(data, lo, hi) == lo <= hi /\ hi <= data.len

\* &data[lo..hi]: its byte length and the segments it covers, in order.
Slice(data, lo, hi) ==
    LET inside(sg) == sg.start >= lo /\ sg.end <= hi
        sel == SelectSeq(AllSegs(data), inside)
    IN  [bytes |-> hi - lo, segs |-> [n \in 1 .. Len(sel) |-> sel[n].val]]

\* ------------------------------------------------------------ key strings
\* A key string: ws whitespace characters around hexlen further characters,
\* which are lowercase hex digits ("lower"), hex digits with uppercase
\* letters ("upper") or contain a non-hex character ("bad"); val names the
\* bytes the hex digits spell.
KeyLen(s) == s.ws + s.hexlen

Trim(s) == [s EXCEPT !.ws = 0]

\* hex::decode: fails on an odd length or on any character that is not a
\* hex digit (whitespace included); otherwise two digits make one byte.
HexDecodeOK(s) == KeyLen(s) % 2 = 0 /\ s.ws = 0 /\ s.kind /= "bad"
HexDecode(s) == [n |-> s.hexlen \div 2, val |-> s.val]

NoPassword == [n |-> 0, val |-> 0]

GoodKey(v) == [ws |-> 0, hexlen |-> KEY_HEX_LEN, kind |-> "lower", val |-> v]

KeyStrings ==
    {GoodKey(v) : v \in PwIds}
    \cup { [GoodKey(0) EXCEPT !.kind = "upper"],
           [GoodKey(0) EXCEPT !.kind = "bad"],
           [GoodKey(0) EXCEPT !.hexlen = KEY_HEX_LEN - 2],
           [GoodKey(0) EXCEPT !.hexlen = KEY_HEX_LEN - 1],
           [GoodKey(0) EXCEPT !.hexlen = KEY_HEX_LEN + 2],
           [GoodKey(0) EXCEPT !.hexlen = KEY_HEX_LEN - 2, !.ws = 2] }

\* The key encoding of the external interface: 64 lowercase hex characters.
WellEncoded(s) == s.ws = 0 /\ s.hexlen = KEY_HEX_LEN /\ s.kind = "lower"

\* ------------------------------------------------------- encrypted inputs
\* The on-disk format: page 1 carries the salt in its first 16 bytes; every
\* page ends with IV(16) || HMAC-SHA1(20) || pad(12); the HMAC covers the
\* page from its first ciphertext byte through the IV, then LE32(page no).
CoveredOf(segs, i) ==
    IF i = 1
    THEN [bytes |-> DEFAULT_PAGESIZE - RESERVED_SIZE + IV_SIZE - SALT_SIZE,
          segs |-> <<segs[2], segs[3]>>]
    ELSE [bytes |-> DEFAULT_PAGESIZE - RESERVED_SIZE + IV_SIZE,
          segs |-> <<segs[1], segs[2], segs[3]>>]

EncryptPage(aes, mk, salt, pg, i) ==
    LET ct == IF i = 1 THEN CbcEncrypt(aes, pg.iv, <<pg.b>>)
              ELSE CbcEncrypt(aes, pg.iv, <<pg.a, pg.b>>)
        s1 == IF i = 1 THEN salt ELSE ct[1]
        s2 == IF i = 1 THEN ct[1] ELSE ct[2]
        mac == HmacSha1(mk, <<CoveredOf(<<s1, s2, pg.iv>>, i), LE32(i)>>)
    IN  <<s1, s2, pg.iv, mac, 0>>

EncryptFile(plain, salt, pw) ==
    LET aes == Pbkdf2(pw, salt, KDF_ITERS)
        mk  == Pbkdf2(aes, MacSalt(salt), MAC_KDF_ITERS)
    IN  [kind |-> "file",
         len |-> DEFAULT_PAGESIZE * Len(plain),
         pages |-> [i \in 1 .. Len(plain) |-> EncryptPage(aes, mk, salt, plain[i], i)]]

\* One segment of one page altered after encryption (d /= 0).
Tamper(f, p, s, d) ==
    [f EXCEPT !.pages[p][s] =
        IF s = 4 THEN [@ EXCEPT !.flip = d] ELSE (@ + d) % ValMod]

PlainPage == [a : Val, b : Val, iv : Val]
PlainFiles ==
    UNION { {pl \in [1 .. n -> PlainPage] : n >= 1 => pl[1].a = 0} : n \in 1 .. MaxPages }

Password32(v) == [n |-> KEY_SIZE, val |-> v]

NoTamper == [page |-> 0, seg |-> 0, d |-> 0]
Tampers(n) == [page : 1 .. n, seg : 1 .. NumSegs, d : 1 .. (ValMod - 1)]

ShortLens == {0, SALT_SIZE - 1, SALT_SIZE, DEFAULT_PAGESIZE - 1}
TailLens == {1, DEFAULT_PAGESIZE - 1}

\* An input together with how it was made:
\* [file, plain, salt, pw, tamper].
Origin(f, pl, salt, v, t) == [file |-> f, plain |-> pl, salt |-> salt, pw |-> v, tamper |-> t]

Inputs ==
    { Origin(EncryptFile(pl, s, Password32(v)), pl, s, v, NoTamper) :
        pl \in PlainFiles, s \in Salts, v \in PwIds }
    \cup UNION { { Origin(Tamper(EncryptFile(pl, 0, Password32(0)), t.page, t.seg, t.d),
                          pl, 0, 0, t) : t \in Tampers(Len(pl)) } : pl \in PlainFiles }
    \cup { Origin([EncryptFile(pl, 0, Password32(0)) EXCEPT !.len = @ + tl],
                  pl, 0, 0, NoTamper) : pl \in PlainFiles, tl \in TailLens }
    \cup { Origin([kind |-> "file", len |-> l, pages |-> <<>>], <<>>, 0, 0, NoTamper) :
             l \in ShortLens }
    \cup { Origin([kind |-> k, len |-> 0, pages |-> <<>>], <<>>, 0, 0, NoTamper) :
             k \in {"missing", "dir"} }

\* ------------------------------------------------------------------ state
VARIABLES
    impl,            \* which decrypt runs: "core" or "wx"
    key_hex,         \* the key string argument
    fs_in,           \* what is at the input path: [kind, len, pages]
    made,            \* how the input was made: [plain, salt, pw, tamper]
    out_parent,      \* whether the output path's parent directory exists
    out,             \* the file at the output path: [exists, chunks]
    ops,             \* file-system operations performed so far, in order
    pc,              \* position of the running call
    result,          \* "running", "Ok", an error variant, or "panic"
    password_bytes,  \* decoded key
    encrypted_data,  \* the input as read into memory
    aes_key_arr,     \* derived AES key
    hmac_key_material, \* derived MAC key
    page_i,          \* loop index of the page loop
    procs,           \* resolver: processes still to visit
    cur,             \* resolver: the process being visited
    key_from_offset_method,        \* resolver: offset candidate
    key_from_memory_search_method, \* resolver: heuristic candidate
    all_user_info,   \* resolver: results pushed so far
    rpc,             \* resolver: position
    rresult          \* resolver: "running", "Ok" or "Err"

\* core::win_api: one call of one introspection function
VARIABLES
    api_op,          \* the function called
    apc,             \* position inside it
    aresult,         \* "running", "Ok" or "Err"
    hstate,          \* the handle of the call: "none", "open" or "closed"
    hopens,          \* handles successfully opened
    hcloses,         \* CloseHandle / RegCloseKey calls made
    hbad,            \* a handle was used or closed while not open
    n_iter,          \* iterations of the snapshot loops
    scan,            \* search_memory_for_pattern: arguments and target memory
    found_addresses,
    current_address,
    mem_info,        \* last VirtualQueryEx answer
    address_in_region_to_scan,
    io_failed        \* a region query or chunk read failed during the scan

\* core::info_extractor::get_key_from_memory_search, step by step
VARIABLES
    h_in,            \* arguments, anchor search results and target memory
    found_anchor_addrs,
    h_i,             \* index of the next anchor string / of the next anchor
    visited,         \* <<anchor, slot>> pairs iterated so far, in order
    derefs,          \* 32-byte blocks read through a slot so far, in order
    hpc,             \* position
    hret             \* the returned Option

hvars == <<h_in, found_anchor_addrs, h_i, visited, derefs, hpc, hret>>

\* wx_core::decryption::batch_decrypt
VARIABLES
    b_in,            \* arguments, the files under db_path, the directories at out_path
    out_tree,        \* the directories at and under out_path as they are now
    process_list,
    results,         \* the result of decrypt for each file so far
    b_i,             \* index into process_list
    env_failed,      \* walking, creating or cleaning a directory failed
    tally,           \* what the summary printed, if it was printed
    bpc,             \* position
    bresult          \* "running", "Ok", an error variant, or "panic"

bvars == <<b_in, out_tree, process_list, results, b_i, env_failed, tally, bpc, bresult>>

\* the offset table: wx_core::utils::WxOffs and core::offsets::load_wx_offsets
VARIABLES
    o_table,         \* the table that is persisted
    o_origin,        \* "to_file": written by WxOffs::to_file; "on_disk": a WX_OFFS.json
    o_json,          \* the JSON document on disk
    o_wx,            \* what WxOffs::from_file returned
    o_core,          \* what load_wx_offsets returned
    o_io_failed,     \* a file operation failed
    opc              \* position

ovars == <<o_table, o_origin, o_json, o_wx, o_core, o_io_failed, opc>>

\* two concurrent calls of core::decryption::decrypt_database_file
VARIABLES
    c_in,            \* per worker: the input file, the key and the file-system answers
    workers,         \* per worker: the locals of its call
    c_files,         \* the files at the output paths
    c_last,          \* the worker that took the last step
    c_switches       \* changes of the running worker so far (capped)

cvars == <<c_in, workers, c_files, c_last, c_switches>>

\* core::db_parser::micro_msg_parser::parse_extra_buf
VARIABLES
    extra_buf,       \* the argument: absent, or the pieces a buffer was put together from
    e_info,          \* ExtraBufInfo: per field, None or the parsed value
    e_i,             \* the next field to look for
    epc,             \* position
    eret             \* "running", "OkNone", "OkSome", "Err" or "panic"

evars == <<extra_buf, e_info, e_i, epc, eret>>

avars == <<api_op, apc, aresult, hstate, hopens, hcloses, hbad, n_iter, scan,
           found_addresses, current_address, mem_info, address_in_region_to_scan,
           io_failed>>
xvars == <<avars, hvars, bvars, ovars, cvars, evars>>

dcore == <<impl, key_hex, fs_in, made, out_parent, out, ops, pc, result,
           password_bytes, encrypted_data, aes_key_arr, hmac_key_material, page_i>>
rcore == <<procs, cur, key_from_offset_method, key_from_memory_search_method,
           all_user_info, rpc, rresult>>
dvars == <<dcore, xvars>>
rvars == <<rcore, xvars>>
vars == <<dcore, rcore, xvars>>
\* everything outside one group
not_avars == <<dcore, rcore, hvars, bvars, ovars, cvars, evars>>
not_hvars == <<dcore, rcore, avars, bvars, ovars, cvars, evars>>
\* batch_decrypt runs decrypt, so its actions leave only these alone
not_bvars == <<rcore, avars, hvars, ovars, cvars, evars>>
not_ovars == <<dcore, rcore, avars, hvars, bvars, cvars, evars>>
not_cvars == <<dcore, rcore, avars, hvars, bvars, ovars, evars>>
not_evars == <<dcore, rcore, avars, hvars, bvars, ovars, cvars>>

NoData == [kind |-> "file", len |-> 0, pages |-> <<>>]
NoKey == Pbkdf2(NoPassword, 0, 0)
NoMacKey == Pbkdf2(NoKey, 0, 0)
None == [some |-> FALSE, v |-> GoodKey(0)]
Some(k) == [some |-> TRUE, v |-> k]
NoProc == [name |-> "", pid |-> 0, version_known |-> FALSE,
           dll_base_address_opt |-> FALSE, pointer_size_opt |-> 0,
           offset_short |-> FALSE, memory_short |-> FALSE]

DecryptIdle ==
    /\ impl = "core" /\ key_hex = GoodKey(0) /\ fs_in = NoData
    /\ made = [plain |-> <<>>, salt |-> 0, pw |-> 0, tamper |-> NoTamper]
    /\ out_parent = TRUE /\ out = [exists |-> FALSE, chunks |-> <<>>]
    /\ ops = <<>> /\ pc = "done" /\ result = "running"
    /\ password_bytes = NoPassword /\ encrypted_data = NoData
    /\ aes_key_arr = NoKey /\ hmac_key_material = NoMacKey /\ page_i = 0

ResolverIdle ==
    /\ procs = <<>> /\ cur = NoProc
    /\ key_from_offset_method = None /\ key_from_memory_search_method = None
    /\ all_user_info = <<>> /\ rpc = "done" /\ rresult = "running"

NoScan == [plen |-> 0, start |-> 0, end |-> 0, max |-> 0, regions |-> <<>>, occ |-> {}]
NoRegion == [base |-> 0, size |-> 0, readable |-> FALSE]

WinApiIdle ==
    /\ api_op = "none" /\ apc = "done" /\ aresult = "running"
    /\ hstate = "none" /\ hopens = 0 /\ hcloses = 0 /\ hbad = FALSE /\ n_iter = 0
    /\ scan = NoScan /\ found_addresses = <<>> /\ current_address = 0
    /\ mem_info = NoRegion /\ address_in_region_to_scan = 0 /\ io_failed = FALSE

HeurIdle ==
    /\ h_in = [pointer_size |-> 0, module_ok |-> FALSE, results |-> <<>>, mem |-> <<>>]
    /\ found_anchor_addrs = <<>> /\ h_i = 0 /\ visited = <<>> /\ derefs = <<>>
    /\ hpc = "done" /\ hret = None

NoDir == [exists |-> FALSE, files |-> FALSE]
NoTree == [d \in {"root", "old", "sub"} |-> NoDir]
NoTally == [printed |-> FALSE, total |-> 0, success |-> 0, fail |-> 0]
BatchIdle ==
    /\ b_in = [key |-> GoodKey(0), db |-> "missing", out_exists |-> FALSE,
               is_print |-> FALSE, files |-> <<>>, sub_from |-> 1, tree |-> NoTree]
    /\ out_tree = NoTree
    /\ process_list = <<>> /\ results = <<>> /\ b_i = 0 /\ env_failed = FALSE
    /\ tally = NoTally /\ bpc = "done" /\ bresult = "running"

EmptyTable == [v \in {} |-> <<>>]
NoDoc == [present |-> FALSE, members |-> EmptyTable]
NotLoaded == [ok |-> FALSE, table |-> EmptyTable]
OffsetsIdle ==
    /\ o_table = EmptyTable /\ o_origin = "on_disk" /\ o_json = NoDoc
    /\ o_wx = NotLoaded /\ o_core = NotLoaded /\ o_io_failed = FALSE /\ opc = "done"

NoFile == [exists |-> FALSE, chunks |-> <<>>]
WorkersIdle ==
    /\ c_in = <<>> /\ workers = <<>> /\ c_files = [p \in {} |-> NoFile]
    /\ c_last = 0 /\ c_switches = 0

NoBuf == [present |-> FALSE, pieces |-> <<>>, cut |-> 0]
NoInfo == [f \in {} |-> 0]
ParserIdle ==
    /\ extra_buf = NoBuf /\ e_info = NoInfo /\ e_i = 0
    /\ epc = "done" /\ eret = "running"

\* every group but g is at rest
IdleExcept(g) ==
    /\ g /= "decrypt" => DecryptIdle
    /\ g /= "resolver" => ResolverIdle
    /\ g /= "win_api" => WinApiIdle
    /\ g /= "heuristic" => HeurIdle
    /\ g /= "batch" => BatchIdle
    /\ g /= "offsets" => OffsetsIdle
    /\ g /= "workers" => WorkersIdle
    /\ g /= "parser" => ParserIdle

\* ------------------------------------------- core::decryption (decryption.rs)
Fail(err) == pc' = "done" /\ result' = err
Goto(l) == pc' = l /\ result' = result

\* lines 72-74
CheckInput ==
    /\ impl = "core" /\ pc = "check_input"
    /\ ops' = Append(ops, "exists")
    /\ IF fs_in.kind /= "file" THEN Fail("Other_NotFound") ELSE Goto("check_key")
    /\ UNCHANGED <<impl, key_hex, fs_in, made, out_parent, out, password_bytes,
                   encrypted_data, aes_key_arr, hmac_key_material, page_i, rvars>>

\* lines 75-79
CheckKey ==
    /\ impl = "core" /\ pc = "check_key"
    /\ IF KeyLen(key_hex) /= KEY_HEX_LEN
       THEN Fail("Other_KeyLen") /\ UNCHANGED password_bytes
       ELSE IF ~HexDecodeOK(key_hex)
            THEN Fail("HexDecodingFailed") /\ UNCHANGED password_bytes
            ELSE Goto("read") /\ password_bytes' = HexDecode(key_hex)
    /\ UNCHANGED <<impl, key_hex, fs_in, made, out_parent, out, ops,
                   encrypted_data, aes_key_arr, hmac_key_material, page_i, rvars>>

\* lines 81-83: File::open and read_to_end, either of which may fail
ReadInput ==
    /\ impl = "core" /\ pc = "read"
    /\ \E open_ok \in BOOLEAN, read_ok \in BOOLEAN :
        IF ~open_ok
        THEN /\ ops' = Append(ops, "open") /\ Fail("Io")
             /\ UNCHANGED encrypted_data
        ELSE IF ~read_ok
        THEN /\ ops' = ops \o <<"open", "read">> /\ Fail("Io")
             /\ UNCHANGED encrypted_data
        ELSE /\ ops' = ops \o <<"open", "read">> /\ Goto("check_len")
             /\ encrypted_data' = fs_in
    /\ UNCHANGED <<impl, key_hex, fs_in, made, out_parent, out, password_bytes,
                   aes_key_arr, hmac_key_material, page_i, rvars>>

\* lines 85-87
CheckLength ==
    /\ impl = "core" /\ pc = "check_len"
    /\ IF encrypted_data.len < DEFAULT_PAGESIZE THEN Fail("FileTooShort") ELSE Goto("derive")
    /\ UNCHANGED <<impl, key_hex, fs_in, made, out_parent, out, ops, password_bytes,
                   encrypted_data, aes_key_arr, hmac_key_material, page_i, rvars>>

\* line 89
SaltOf(data) == Slice(data, 0, SALT_SIZE).segs[1]

\* lines 89-95
DeriveKeys ==
    /\ impl = "core" /\ pc = "derive"
    /\ LET salt == SaltOf(encrypted_data)
           aes == Pbkdf2(password_bytes, salt, KDF_ITERS)
       IN  /\ aes_key_arr' = aes
           /\ hmac_key_material' = Pbkdf2(aes, MacSalt(salt), MAC_KDF_ITERS)
    /\ Goto("verify")
    /\ UNCHANGED <<impl, key_hex, fs_in, made, out_parent, out, ops, password_bytes,
                   encrypted_data, page_i, rvars>>

\* line 97
FirstPageDataForHmac(data) ==
    Slice(data, SALT_SIZE, DEFAULT_PAGESIZE - RESERVED_SIZE + IV_SIZE)

\* line 98
StoredHmac(data) ==
    Slice(data, DEFAULT_PAGESIZE - RESERVED_SIZE + IV_SIZE,
                DEFAULT_PAGESIZE - RESERVED_SIZE + IV_SIZE + HMAC_SHA1_SIZE)

\* lines 100-105
CalculatedHmac(mk, data) ==
    [bytes |-> HMAC_SHA1_SIZE,
     segs |-> <<HmacSha1(mk, <<FirstPageDataForHmac(data), LE32(1)>>)>>]

\* a variant that compares the lengths only
HmacMatches_LenOnly(mk, data) == CalculatedHmac(mk, data).bytes = StoredHmac(data).bytes

\* line 106
HmacMatches(mk, data) == CalculatedHmac(mk, data) = StoredHmac(data)

\* a variant that reports the mismatch and carries on
VerifyFirstPage_NoReturn ==
    /\ impl = "core" /\ pc = "verify"
    /\ Goto("create")
    /\ UNCHANGED <<impl, key_hex, fs_in, made, out_parent, out, ops, password_bytes,
                   encrypted_data, aes_key_arr, hmac_key_material, page_i, rvars>>

\* lines 97-111
VerifyFirstPage ==
    /\ impl = "core" /\ pc = "verify"
    /\ IF ~HmacMatches(hmac_key_material, encrypted_data)
       THEN Fail("HmacVerificationFailed")
       ELSE Goto("create")
    /\ UNCHANGED <<impl, key_hex, fs_in, made, out_parent, out, ops, password_bytes,
                   encrypted_data, aes_key_arr, hmac_key_material, page_i, rvars>>

HeaderChunk == [bytes |-> 16, segs |-> <<SQLITE_FILE_HEADER>>]

\* lines 113-114: File::create, then write_all of the header
CreateOutput ==
    /\ impl = "core" /\ pc = "create"
    /\ \E create_ok \in BOOLEAN, write_ok \in BOOLEAN :
        IF ~create_ok
        THEN /\ ops' = Append(ops, "create") /\ Fail("Io") /\ UNCHANGED out
        ELSE IF ~write_ok
        THEN /\ ops' = ops \o <<"create", "write">> /\ Fail("Io")
             /\ out' = [exists |-> TRUE, chunks |-> <<>>]
        ELSE /\ ops' = ops \o <<"create", "write">> /\ Goto("pages")
             /\ out' = [exists |-> TRUE, chunks |-> <<HeaderChunk>>]
    /\ page_i' = 0
    /\ UNCHANGED <<impl, key_hex, fs_in, made, out_parent, password_bytes,
                   encrypted_data, aes_key_arr, hmac_key_material, rvars>>

\* line 116
NumPages(data) == data.len \div DEFAULT_PAGESIZE

\* a variant that does not skip the salt of the first page
DataToDecrypt_SaltIncluded(data, i) ==
    Slice(data, i * DEFAULT_PAGESIZE,
                i * DEFAULT_PAGESIZE + DEFAULT_PAGESIZE - RESERVED_SIZE)

\* a variant whose span runs on over the IV and the stored HMAC
DataToDecrypt_IntoTrailer(data, i) ==
    IF i = 0
    THEN Slice(data, i * DEFAULT_PAGESIZE + SALT_SIZE,
                     i * DEFAULT_PAGESIZE + DEFAULT_PAGESIZE - RESERVED_SIZE
                         + IV_SIZE + HMAC_SHA1_SIZE)
    ELSE Slice(data, i * DEFAULT_PAGESIZE,
                     i * DEFAULT_PAGESIZE + DEFAULT_PAGESIZE - RESERVED_SIZE
                         + IV_SIZE + HMAC_SHA1_SIZE)

\* lines 128-134: the span handed to AES-CBC
DataToDecrypt(data, i) ==
    IF i = 0
    THEN Slice(data, i * DEFAULT_PAGESIZE + SALT_SIZE,
                     i * DEFAULT_PAGESIZE + DEFAULT_PAGESIZE - RESERVED_SIZE)
    ELSE Slice(data, i * DEFAULT_PAGESIZE,
                     i * DEFAULT_PAGESIZE + DEFAULT_PAGESIZE - RESERVED_SIZE)

\* lines 130, 133
IvSlice(data, i) ==
    Slice(data, i * DEFAULT_PAGESIZE + DEFAULT_PAGESIZE - RESERVED_SIZE,
                i * DEFAULT_PAGESIZE + DEFAULT_PAGESIZE - RESERVED_SIZE + IV_SIZE)

\* line 158
ReservedOf(data, i) ==
    Slice(data, i * DEFAULT_PAGESIZE + DEFAULT_PAGESIZE - RESERVED_SIZE,
                i * DEFAULT_PAGESIZE + DEFAULT_PAGESIZE)

\* a variant that decrypts every block on its own, without IV or chaining
DecryptBuffer_Ecb(aes, data, i) ==
    [bytes |-> DataToDecrypt(data, i).bytes,
     segs |-> [n \in 1 .. Len(DataToDecrypt(data, i).segs) |->
                  AesDecryptBlock(aes, DataToDecrypt(data, i).segs[n])]]

\* lines 142-151
DecryptBuffer(aes, data, i) ==
    [bytes |-> DataToDecrypt(data, i).bytes,
     segs |-> CbcDecrypt(aes, IvSlice(data, i).segs[1], DataToDecrypt(data, i).segs)]

\* lines 119-159: one iteration of the page loop
DecryptPage ==
    /\ impl = "core" /\ pc = "pages"
    /\ page_i < NumPages(encrypted_data)
    /\ LET span == DataToDecrypt(encrypted_data, page_i)
       IN
       IF page_i * DEFAULT_PAGESIZE + DEFAULT_PAGESIZE > encrypted_data.len
       THEN /\ pc' = "done" /\ result' = "Ok" /\ UNCHANGED <<out, ops, page_i>>
       ELSE IF span.bytes = 0
       THEN /\ Goto("pages") /\ page_i' = page_i + 1 /\ UNCHANGED <<out, ops>>
       ELSE IF span.bytes % AES_BLOCK_SIZE /= 0
       THEN /\ Fail("Other_Malformed") /\ UNCHANGED <<out, ops, page_i>>
       ELSE \E w1 \in BOOLEAN, w2 \in BOOLEAN :
            IF ~w1
            THEN /\ ops' = Append(ops, "write") /\ Fail("Io")
                 /\ UNCHANGED <<out, page_i>>
            ELSE IF ~w2
            THEN /\ ops' = ops \o <<"write", "write">> /\ Fail("Io")
                 /\ out' = [out EXCEPT !.chunks =
                               Append(@, DecryptBuffer(aes_key_arr, encrypted_data, page_i))]
                 /\ UNCHANGED page_i
            ELSE /\ ops' = ops \o <<"write", "write">> /\ Goto("pages")
                 /\ out' = [out EXCEPT !.chunks =
                               @ \o << DecryptBuffer(aes_key_arr, encrypted_data, page_i),
                                       ReservedOf(encrypted_data, page_i) >>]
                 /\ page_i' = page_i + 1
    /\ UNCHANGED <<impl, key_hex, fs_in, made, out_parent, password_bytes,
                   encrypted_data, aes_key_arr, hmac_key_material, rvars>>

\* a variant that returns Ok(()) from inside the loop
Finish_Early ==
    /\ impl = "core" /\ pc = "pages"
    /\ pc' = "done" /\ result' = "Ok"
    /\ UNCHANGED <<impl, key_hex, fs_in, made, out_parent, out, ops, password_bytes,
                   encrypted_data, aes_key_arr, hmac_key_material, page_i, rvars>>

\* a variant that reports an error when bytes follow the last whole page
Finish_RejectTail ==
    /\ impl = "core" /\ pc = "pages"
    /\ page_i >= NumPages(encrypted_data)
    /\ pc' = "done"
    /\ result' = IF encrypted_data.len % DEFAULT_PAGESIZE /= 0
                 THEN "Other_Malformed" ELSE "Ok"
    /\ UNCHANGED <<impl, key_hex, fs_in, made, out_parent, out, ops, password_bytes,
                   encrypted_data, aes_key_arr, hmac_key_material, page_i, rvars>>

\* lines 119, 161-162: the loop is over, Ok(())
Finish ==
    /\ impl = "core" /\ pc = "pages"
    /\ page_i >= NumPages(encrypted_data)
    /\ pc' = "done" /\ result' = "Ok"
    /\ UNCHANGED <<impl, key_hex, fs_in, made, out_parent, out, ops, password_bytes,
                   encrypted_data, aes_key_arr, hmac_key_material, page_i, rvars>>

\* --------------------------------------- wx_core::decryption::decrypt
\* lines 25-31
WxCheckPaths ==
    /\ impl = "wx" /\ pc = "wx_check_paths"
    /\ IF fs_in.kind /= "file"
       THEN ops' = Append(ops, "exists") /\ Fail("InvalidPath")
       ELSE /\ ops' = ops \o <<"exists", "exists_parent">>
            /\ IF ~out_parent THEN Fail("InvalidPath") ELSE Goto("wx_check_key")
    /\ UNCHANGED <<impl, key_hex, fs_in, made, out_parent, out, password_bytes,
                   encrypted_data, aes_key_arr, hmac_key_material, page_i, rvars>>

\* lines 33-38
WxCheckKey ==
    /\ impl = "wx" /\ pc = "wx_check_key"
    /\ IF KeyLen(key_hex) /= KEY_HEX_LEN
       THEN Fail("Key") /\ UNCHANGED password_bytes
       ELSE IF ~HexDecodeOK(Trim(key_hex))
            THEN Fail("Key") /\ UNCHANGED password_bytes
            ELSE Goto("wx_read") /\ password_bytes' = HexDecode(Trim(key_hex))
    /\ UNCHANGED <<impl, key_hex, fs_in, made, out_parent, out, ops,
                   encrypted_data, aes_key_arr, hmac_key_material, page_i, rvars>>

\* lines 41-43
WxReadInput ==
    /\ impl = "wx" /\ pc = "wx_read"
    /\ \E open_ok \in BOOLEAN, read_ok \in BOOLEAN :
        IF ~open_ok
        THEN /\ ops' = Append(ops, "open") /\ Fail("Io")
             /\ UNCHANGED encrypted_data
        ELSE IF ~read_ok
        THEN /\ ops' = ops \o <<"open", "read">> /\ Fail("Io")
             /\ UNCHANGED encrypted_data
        ELSE /\ ops' = ops \o <<"open", "read">> /\ Goto("wx_check_len")
             /\ encrypted_data' = fs_in
    /\ UNCHANGED <<impl, key_hex, fs_in, made, out_parent, out, password_bytes,
                   aes_key_arr, hmac_key_material, page_i, rvars>>

\* lines 46-51: the length test, then the slices blist[0..16], blist[16..4096]
WxCheckLength ==
    /\ impl = "wx" /\ pc = "wx_check_len"
    /\ IF encrypted_data.len < 16
       THEN Fail("Database")
       ELSE IF ~SliceOK(encrypted_data, 16, 4096)
            THEN Fail("panic")
            ELSE Goto("wx_derive")
    /\ UNCHANGED <<impl, key_hex, fs_in, made, out_parent, out, ops, password_bytes,
                   encrypted_data, aes_key_arr, hmac_key_material, page_i, rvars>>

\* lines 50, 54-59
WxDeriveKeys ==
    /\ impl = "wx" /\ pc = "wx_derive"
    /\ LET salt == Slice(encrypted_data, 0, 16).segs[1]
           byte_hmac == Pbkdf2(password_bytes, salt, KDF_ITERS)
       IN  /\ aes_key_arr' = byte_hmac
           /\ hmac_key_material' = Pbkdf2(byte_hmac, MacSalt(salt), MAC_KDF_ITERS)
    /\ Goto("wx_verify")
    /\ UNCHANGED <<impl, key_hex, fs_in, made, out_parent, out, ops, password_bytes,
                   encrypted_data, page_i, rvars>>

\* line 67: first = blist[16..4096]; first[first.len()-32 .. first.len()-12]
WxExpectedHmac(data) ==
    LET first_len == 4096 - 16
    IN  Slice(data, 16 + first_len - 32, 16 + first_len - 12)

\* lines 62-68
WxCalculatedHmac(mk, data) ==
    [bytes |-> HMAC_SHA1_SIZE,
     segs |-> <<HmacSha1(mk, <<Slice(data, 16, 4064), LE32(1)>>)>>]

\* a variant that does not return on a mismatch
WxVerify_NoReturn ==
    /\ impl = "wx" /\ pc = "wx_verify"
    /\ Goto("wx_create")
    /\ UNCHANGED <<impl, key_hex, fs_in, made, out_parent, out, ops, password_bytes,
                   encrypted_data, aes_key_arr, hmac_key_material, page_i, rvars>>

\* lines 61-75
WxVerify ==
    /\ impl = "wx" /\ pc = "wx_verify"
    /\ IF WxCalculatedHmac(hmac_key_material, encrypted_data) /= WxExpectedHmac(encrypted_data)
       THEN Fail("Key")
       ELSE Goto("wx_create")
    /\ UNCHANGED <<impl, key_hex, fs_in, made, out_parent, out, ops, password_bytes,
                   encrypted_data, aes_key_arr, hmac_key_material, page_i, rvars>>

\* lines 78-93: File::create, write_all of the header, Ok(..)
WxCreateOutput ==
    /\ impl = "wx" /\ pc = "wx_create"
    /\ \E create_ok \in BOOLEAN, write_ok \in BOOLEAN :
        IF ~create_ok
        THEN /\ ops' = Append(ops, "create") /\ Fail("Io") /\ UNCHANGED out
        ELSE IF ~write_ok
        THEN /\ ops' = ops \o <<"create", "write">> /\ Fail("Io")
             /\ out' = [exists |-> TRUE, chunks |-> <<>>]
        ELSE /\ ops' = ops \o <<"create", "write">>
             /\ pc' = "done" /\ result' = "Ok"
             /\ out' = [exists |-> TRUE, chunks |-> <<HeaderChunk>>]
    /\ UNCHANGED <<impl, key_hex, fs_in, made, out_parent, password_bytes,
                   encrypted_data, aes_key_arr, hmac_key_material, page_i, rvars>>

\* ------------------------------ core::info_extractor (info_extractor.rs)
\* hex::encode of bytes read from process memory
HexEncode(b) == [ws |-> 0, hexlen |-> 2 * b.n, kind |-> "lower", val |-> b.val]

\* line 288: "ef135b887201452c9301f7ff774d83ce34852ab7f68844bfaae485b233626fe6",
\* the hex string of the 32 bytes named 0
expected_key_str == HexEncode(Password32(0))

KEY_LEN == 32
LOW_ADDR == 65536

ProcNames == {"WeChat.exe", "explorer.exe"}
ProcLists ==
    UNION { [1 .. n -> ProcNames] : n \in 0 .. MaxProcs }

\* What the reads of one process's memory return: the pointer read (failed,
\* or the address it holds) and the read of KEY_LEN bytes at that address
\* (failed, or the bytes returned).
PtrReads == {[ok |-> FALSE, addr |-> 0], [ok |-> TRUE, addr |-> 0],
             [ok |-> TRUE, addr |-> LOW_ADDR - 1], [ok |-> TRUE, addr |-> LOW_ADDR]}
KeyReads == {[ok |-> FALSE, n |-> 0, val |-> 0]}
            \cup {[ok |-> TRUE, n |-> KEY_LEN, val |-> v] : v \in 0 .. 2}
            \cup {[ok |-> TRUE, n |-> KEY_LEN - 1, val |-> 1]}

\* a variant without the check of line 376
read_key_via_pointer_offset_AnyLen(offset, pointer_size, ptr, key) ==
    IF offset = 0 THEN None
    ELSE IF ~ptr.ok THEN None
    ELSE IF pointer_size \notin {4, 8} THEN None
    ELSE IF ptr.addr < LOW_ADDR THEN None
    ELSE IF ~key.ok THEN None
    ELSE Some(HexEncode([n |-> key.n, val |-> key.val]))

\* lines 360-378: Some(hex) for Ok(hex), None for every Err
read_key_via_pointer_offset(offset, pointer_size, ptr, key) ==
    IF offset = 0 THEN None
    ELSE IF ~ptr.ok THEN None
    ELSE IF pointer_size \notin {4, 8} THEN None
    ELSE IF ptr.addr < LOW_ADDR THEN None
    ELSE IF ~key.ok THEN None
    ELSE IF key.n < KEY_LEN THEN None
    ELSE Some(HexEncode([n |-> key.n, val |-> key.val]))

\* line 161: key_bytes.iter().all(|&b| b == 0); val 2 names the zero bytes
AllZero(key) == key.val = 2

\* lines 119-175, by its outcome: None when the module or every anchor is
\* missing or no slot leads to a non-zero 32-byte block, else the first such
\* block found
get_key_from_memory_search(module_ok, anchors_found, key) ==
    IF ~module_ok THEN None
    ELSE IF ~anchors_found THEN None
    ELSE IF ~key.ok \/ key.n /= KEY_LEN \/ AllZero(key) THEN None
    ELSE Some(HexEncode([n |-> key.n, val |-> key.val]))

\* line 179
ListProcesses ==
    /\ rpc = "list"
    /\ \/ /\ rresult' = "Err" /\ rpc' = "done" /\ UNCHANGED procs
       \/ /\ \E l \in ProcLists : procs' = [n \in 1 .. Len(l) |-> [name |-> l[n], pid |-> n]]
          /\ rpc' = "loop" /\ UNCHANGED rresult
    /\ UNCHANGED <<cur, key_from_offset_method, key_from_memory_search_method,
                   all_user_info, dvars>>

\* lines 181-182: a process that is not WeChat.exe is passed over
SkipProcess ==
    /\ rpc = "loop" /\ procs /= <<>>
    /\ Head(procs).name /= "WeChat.exe"
    /\ procs' = Tail(procs)
    /\ UNCHANGED <<cur, key_from_offset_method, key_from_memory_search_method,
                   all_user_info, rpc, rresult, dvars>>

\* lines 184-187: the exe path cannot be read, continue
ExePathFails ==
    /\ rpc = "loop" /\ procs /= <<>>
    /\ Head(procs).name = "WeChat.exe"
    /\ procs' = Tail(procs)
    /\ UNCHANGED <<cur, key_from_offset_method, key_from_memory_search_method,
                   all_user_info, rpc, rresult, dvars>>

\* a variant that queries the architecture and the module base whether or not
\* the version has offsets
Probe_Ungated ==
    /\ rpc = "loop" /\ procs /= <<>>
    /\ Head(procs).name = "WeChat.exe"
    /\ \E version_known \in BOOLEAN, arch \in {0, 4, 8}, base_ok \in BOOLEAN :
         cur' = [name |-> Head(procs).name, pid |-> Head(procs).pid,
                 version_known |-> version_known,
                 pointer_size_opt |-> arch,
                 dll_base_address_opt |-> arch /= 0 /\ base_ok,
                 offset_short |-> FALSE, memory_short |-> FALSE]
    /\ procs' = Tail(procs)
    /\ key_from_offset_method' = None
    /\ key_from_memory_search_method' = None
    /\ rpc' = "keys"
    /\ UNCHANGED <<all_user_info, rresult, dvars>>

\* lines 188-236: version (or "unknown"), offsets lookup, architecture and
\* module base; the last two are queried only when the version has offsets.
\* version_known is loaded_offsets.get(&version).is_some().
Probe ==
    /\ rpc = "loop" /\ procs /= <<>>
    /\ Head(procs).name = "WeChat.exe"
    /\ \E version_known \in BOOLEAN, arch \in {0, 4, 8}, base_ok \in BOOLEAN :
         cur' = [name |-> Head(procs).name, pid |-> Head(procs).pid,
                 version_known |-> version_known,
                 pointer_size_opt |-> IF version_known THEN arch ELSE 0,
                 dll_base_address_opt |-> version_known /\ arch /= 0 /\ base_ok,
                 offset_short |-> FALSE, memory_short |-> FALSE]
    /\ procs' = Tail(procs)
    /\ key_from_offset_method' = None
    /\ key_from_memory_search_method' = None
    /\ rpc' = "keys"
    /\ UNCHANGED <<all_user_info, rresult, dvars>>

\* lines 286-304: both strategies, attempted only with a module base and a
\* pointer size. cur.offset_short and cur.memory_short record that the read
\* of the key bytes of a strategy returned fewer than KEY_LEN bytes.
KeyStrategies ==
    /\ rpc = "keys"
    /\ IF cur.dll_base_address_opt /\ cur.pointer_size_opt /= 0
       THEN \E nof \in {4, 5}, off \in {0, 64}, ptr \in PtrReads, key \in KeyReads,
               module_ok \in BOOLEAN, anchors \in BOOLEAN, mkey \in KeyReads :
              /\ key_from_offset_method' =
                    IF cur.version_known /\ nof > 4 /\ off /= 0
                    THEN read_key_via_pointer_offset(off, cur.pointer_size_opt, ptr, key)
                    ELSE None
              /\ key_from_memory_search_method' =
                    get_key_from_memory_search(module_ok, anchors, mkey)
              /\ cur' = [cur EXCEPT
                    !.offset_short = /\ cur.version_known /\ nof > 4 /\ off /= 0
                                     /\ ptr.ok /\ ptr.addr >= LOW_ADDR
                                     /\ key.ok /\ key.n < KEY_LEN,
                    !.memory_short = /\ module_ok /\ anchors
                                     /\ mkey.ok /\ mkey.n < KEY_LEN]
       ELSE UNCHANGED <<key_from_offset_method, key_from_memory_search_method, cur>>
    /\ rpc' = "reconcile"
    /\ UNCHANGED <<procs, all_user_info, rresult, dvars>>

\* a variant without the offset-only branch
FinalKey_MemOnly(mem_k, offset_k) ==
    IF mem_k.some THEN mem_k ELSE None

\* lines 306-321: the key stored in user_info
FinalKey(mem_k, offset_k) ==
    IF mem_k.some
    THEN IF mem_k.v = expected_key_str THEN mem_k
         ELSE IF offset_k.some
              THEN IF offset_k.v = expected_key_str THEN offset_k ELSE mem_k
              ELSE mem_k
    ELSE IF offset_k.some THEN offset_k
    ELSE None

\* lines 306-324: reconcile and push user_info
Reconcile ==
    /\ rpc = "reconcile"
    /\ all_user_info' = Append(all_user_info,
          [pid |-> cur.pid,
           key |-> FinalKey(key_from_memory_search_method, key_from_offset_method),
           offset_cand |-> key_from_offset_method,
           memory_cand |-> key_from_memory_search_method,
           version_known |-> cur.version_known,
           offset_short |-> cur.offset_short,
           memory_short |-> cur.memory_short])
    /\ rpc' = "loop"
    /\ UNCHANGED <<procs, cur, key_from_offset_method, key_from_memory_search_method,
                   rresult, dvars>>

\* lines 327-328
ReturnInfo ==
    /\ rpc = "loop" /\ procs = <<>>
    /\ rpc' = "done" /\ rresult' = "Ok"
    /\ UNCHANGED <<procs, cur, key_from_offset_method, key_from_memory_search_method,
                   all_user_info, dvars>>

\* ------------------------------------------------ core::win_api (win_api.rs)
\* line 343: vec![0u8; 4096 * 2]
BUFFER_LEN == 4096 * 2

\* The target's memory: regions of whole pages laid end to end from address 0,
\* each committed-and-readable or not, and the set of addresses at which the
\* pattern occurs.
PageBytes == BUFFER_LEN \div 2
RegionSizes == {PageBytes, 3 * PageBytes}
Layouts ==
    UNION {[1 .. n -> [size : RegionSizes, readable : BOOLEAN]] : n \in 1 .. MaxRegions}

RECURSIVE RegionBase(_, _)
RegionBase(regions, k) ==
    IF k = 1 THEN 0 ELSE RegionBase(regions, k - 1) + regions[k - 1].size

RegionEnd(regions, k) == RegionBase(regions, k) + regions[k].size
Mapped(regions) == RegionEnd(regions, Len(regions))

OccCands == {PatLen, PageBytes + PatLen, BUFFER_LEN - 1, BUFFER_LEN}
ScanInputs ==
    {[plen |-> 0, start |-> 0, end |-> Mapped(l), max |-> m, regions |-> l, occ |-> {}] :
        l \in Layouts, m \in 0 .. MaxMatches}
    \cup
    {s \in [plen : {PatLen}, start : {0, PageBytes}, end : {PageBytes, 6 * PageBytes},
            max : 0 .. MaxMatches, regions : Layouts, occ : SUBSET OccCands] :
        \A a \in s.occ : a + s.plen <= Mapped(s.regions)}

\* VirtualQueryEx (lines 347-354): the pages from the one holding addr to the
\* end of its region, or failure past the last region
VirtualQueryEx(regions, addr) ==
    IF addr >= Mapped(regions)
    THEN [ok |-> FALSE, base |-> 0, size |-> 0, readable |-> FALSE]
    ELSE LET k == CHOOSE j \in 1 .. Len(regions) :
                      RegionBase(regions, j) <= addr /\ addr < RegionEnd(regions, j)
             b == (addr \div PageBytes) * PageBytes
         IN  [ok |-> TRUE, base |-> b, size |-> RegionEnd(regions, k) - b,
              readable |-> regions[k].readable]

\* ReadProcessMemory (lines 377-385): all the bytes, or failure after none or
\* after one page of them
ReadOutcomes(bytes_to_read) ==
    {[ok |-> TRUE, count |-> bytes_to_read], [ok |-> FALSE, count |-> 0]}
    \cup (IF bytes_to_read > PageBytes THEN {[ok |-> FALSE, count |-> PageBytes]} ELSE {})

RECURSIVE Ascending(_)
Ascending(S) ==
    IF S = {} THEN <<>>
    ELSE LET m == CHOOSE x \in S : \A y \in S : x <= y
         IN  <<m>> \o Ascending(S \ {m})

\* lines 388-390: the windows of the chunk [addr, addr + count) equal to the pattern
Matches(addr, count) ==
    Ascending({a \in scan.occ : addr <= a /\ a + scan.plen <= addr + count})

Min(a, b) == IF a < b THEN a ELSE b

\* a variant that keeps pushing after max_occurrences is reached
PushMatches_NoBreak(found, m, max_occurrences) == found \o m

\* lines 389-396: push each match, break when max_occurrences is reached
PushMatches(found, m, max_occurrences) ==
    found \o SubSeq(m, 1, Min(Len(m), max_occurrences - Len(found)))

\* handle bookkeeping for OpenProcess / CreateToolhelp32Snapshot / RegOpenKeyExW,
\* calls that take the handle, and CloseHandle / RegCloseKey
HOpened == hstate' = "open" /\ hopens' = hopens + 1 /\ UNCHANGED <<hcloses, hbad>>
HUse == hbad' = (hbad \/ hstate /= "open") /\ UNCHANGED <<hstate, hopens, hcloses>>
HClosed ==
    /\ hstate' = "closed" /\ hcloses' = hcloses + 1
    /\ hbad' = (hbad \/ hstate /= "open") /\ UNCHANGED hopens
HSame == UNCHANGED <<hstate, hopens, hcloses, hbad>>

scan_locals == <<found_addresses, current_address, mem_info,
                 address_in_region_to_scan, io_failed>>

\* lines 326-344
SearchOpen ==
    /\ api_op = "search_memory_for_pattern" /\ apc = "open"
    /\ IF scan.plen = 0
       THEN /\ apc' = "done" /\ aresult' = "Ok" /\ HSame
            /\ UNCHANGED current_address
       ELSE \E ok \in BOOLEAN :
            IF ~ok
            THEN /\ apc' = "done" /\ aresult' = "Err" /\ HSame
                 /\ UNCHANGED current_address
            ELSE /\ apc' = "outer" /\ aresult' = aresult /\ HOpened
                 /\ current_address' = scan.start
    /\ found_addresses' = <<>>
    /\ UNCHANGED <<api_op, n_iter, scan, mem_info, address_in_region_to_scan,
                   io_failed, not_avars>>

\* a variant that steps to the base of the region rather than to its end
NextRegion_ToBase(info) ==
    /\ current_address' = info.base
    /\ apc' = IF info.base + info.size < info.base THEN "close" ELSE "outer"

\* lines 404-408: step to the end of the region, stop on wrap-around
NextRegion(info) ==
    /\ current_address' = info.base + info.size
    /\ apc' = IF info.base + info.size < info.base THEN "close" ELSE "outer"

\* lines 345-370 and 404-408: the outer loop's test, the region query, and the
\* step over a region that is not readable
SearchQuery ==
    /\ api_op = "search_memory_for_pattern" /\ apc = "outer"
    /\ IF ~(current_address < scan.end /\ Len(found_addresses) < scan.max)
       THEN /\ apc' = "close" /\ HSame
            /\ UNCHANGED <<current_address, mem_info, address_in_region_to_scan, io_failed>>
       ELSE \E ok \in BOOLEAN :
            LET q == VirtualQueryEx(scan.regions, current_address)
            IN  /\ HUse
                /\ IF ~ok \/ ~q.ok
                   THEN /\ apc' = "close" /\ io_failed' = (io_failed \/ q.ok)
                        /\ UNCHANGED <<current_address, mem_info, address_in_region_to_scan>>
                   ELSE /\ mem_info' = [base |-> q.base, size |-> q.size,
                                        readable |-> q.readable]
                        /\ io_failed' = io_failed
                        /\ IF q.readable
                           THEN /\ address_in_region_to_scan' = current_address
                                /\ apc' = "inner" /\ UNCHANGED current_address
                           ELSE /\ NextRegion(q)
                                /\ UNCHANGED address_in_region_to_scan
    /\ UNCHANGED <<api_op, aresult, n_iter, scan, found_addresses, not_avars>>

\* lines 372-402: the inner loop's test and one chunk read
SearchChunk ==
    /\ api_op = "search_memory_for_pattern" /\ apc = "inner"
    /\ LET region_end == mem_info.base + mem_info.size
           bytes_to_read == Min(BUFFER_LEN, region_end - address_in_region_to_scan)
       IN
       IF ~(address_in_region_to_scan < region_end /\ Len(found_addresses) < scan.max)
          \/ bytes_to_read = 0
       THEN /\ NextRegion(mem_info) /\ HSame
            /\ UNCHANGED <<found_addresses, address_in_region_to_scan, io_failed>>
       ELSE \E r \in ReadOutcomes(bytes_to_read) :
            /\ HUse
            /\ io_failed' = (io_failed \/ ~r.ok)
            /\ found_addresses' =
                  IF r.ok /\ r.count > 0
                  THEN PushMatches(found_addresses,
                                   Matches(address_in_region_to_scan, r.count), scan.max)
                  ELSE found_addresses
            /\ address_in_region_to_scan' = address_in_region_to_scan + r.count
            /\ IF r.count = 0
               THEN NextRegion(mem_info)
               ELSE apc' = "inner" /\ UNCHANGED current_address
    /\ UNCHANGED <<api_op, aresult, n_iter, scan, mem_info, not_avars>>

\* a variant that reports a failed query or read as an error
SearchClose_ErrOnFailure ==
    /\ api_op = "search_memory_for_pattern" /\ apc = "close"
    /\ HClosed /\ apc' = "done" /\ aresult' = IF io_failed THEN "Err" ELSE "Ok"
    /\ UNCHANGED <<api_op, n_iter, scan, scan_locals, not_avars>>

\* lines 411-412
SearchClose ==
    /\ api_op = "search_memory_for_pattern" /\ apc = "close"
    /\ HClosed /\ apc' = "done" /\ aresult' = "Ok"
    /\ UNCHANGED <<api_op, n_iter, scan, scan_locals, not_avars>>

\* The other introspection functions: a call that opens the handle, calls that
\* take it, and the call that closes it before the function returns.
api_frame == <<api_op, scan, scan_locals, not_avars>>

ApiOpen(op, next) ==
    /\ api_op = op /\ apc = "open"
    /\ \E ok \in BOOLEAN :
        IF ok THEN HOpened /\ apc' = next /\ aresult' = aresult
        ELSE HSame /\ apc' = "done" /\ aresult' = "Err"
    /\ UNCHANGED <<n_iter, api_frame>>

ApiUse(op, at, nexts) ==
    /\ api_op = op /\ apc = at
    /\ HUse /\ apc' \in nexts /\ aresult' = aresult
    /\ UNCHANGED <<n_iter, api_frame>>

ApiClose(op, ok_at, err_at) ==
    /\ api_op = op /\ apc \in ok_at \cup err_at
    /\ HClosed /\ apc' = "done" /\ aresult' = IF apc \in ok_at THEN "Ok" ELSE "Err"
    /\ UNCHANGED <<n_iter, api_frame>>

\* one pass of a snapshot loop: Process32NextW / Module32NextW
ApiLoop(op, exits) ==
    /\ api_op = op /\ apc = "loop"
    /\ HUse /\ aresult' = aresult
    /\ \/ n_iter < MaxProcs /\ n_iter' = n_iter + 1 /\ apc' = "loop"
       \/ n_iter' = n_iter /\ apc' \in exits
    /\ UNCHANGED api_frame

\* list_processes, lines 20-24
LpSnapshot == ApiOpen("list_processes", "first")
\* a variant that returns the error without closing the snapshot
LpFirst_Leak ==
    /\ api_op = "list_processes" /\ apc = "first"
    /\ HUse
    /\ \E ok \in BOOLEAN :
        IF ok THEN apc' = "loop" /\ aresult' = aresult
        ELSE apc' = "done" /\ aresult' = "Err"
    /\ UNCHANGED <<n_iter, api_frame>>

\* lines 29-32: Process32FirstW
LpFirst == ApiUse("list_processes", "first", {"loop", "close_err"})
\* lines 34-47
LpNext == ApiLoop("list_processes", {"close"})
\* lines 30-31 and 49-50
LpClose == ApiClose("list_processes", {"close"}, {"close_err"})

\* get_process_exe_path, lines 58-68
GpeOpen == ApiOpen("get_process_exe_path", "query")
\* lines 73-80: K32GetModuleFileNameExW
GpeQuery == ApiUse("get_process_exe_path", "query", {"close", "close_err"})
\* lines 82-90
GpeClose == ApiClose("get_process_exe_path", {"close"}, {"close_err"})

\* read_process_memory, lines 171-186: size 0 returns before OpenProcess
RpmOpen ==
    \/ /\ api_op = "read_process_memory" /\ apc = "open"
       /\ HSame /\ apc' = "done" /\ aresult' = "Ok"
       /\ UNCHANGED <<n_iter, api_frame>>
    \/ ApiOpen("read_process_memory", "read")
\* lines 190-198: ReadProcessMemory
RpmRead == ApiUse("read_process_memory", "read", {"close", "close_err"})
\* lines 200-214
RpmClose == ApiClose("read_process_memory", {"close"}, {"close_err"})

\* get_module_base_address, lines 219-232
GmbSnapshot == ApiOpen("get_module_base_address", "first")
\* lines 237-243: Module32FirstW
GmbFirst == ApiUse("get_module_base_address", "first", {"loop", "close_err"})
\* lines 246-259: leave the loop on a match or when Module32NextW fails
GmbNext ==
    \/ /\ api_op = "get_module_base_address" /\ apc = "loop"
       /\ HSame /\ apc' = "close_found" /\ aresult' = aresult
       /\ UNCHANGED <<n_iter, api_frame>>
    \/ ApiLoop("get_module_base_address", {"close"})
\* lines 238-243 and 261-266
GmbClose == ApiClose("get_module_base_address", {"close_found"}, {"close", "close_err"})

\* get_process_architecture, lines 271-281
GpaOpen == ApiOpen("get_process_architecture", "query")
\* lines 283-286: IsWow64Process; "close_err" also stands for the unknown
\* architecture found after the handle is closed (line 312)
GpaIsWow64 == ApiUse("get_process_architecture", "query", {"close", "close_err"})
\* lines 287-313
GpaClose == ApiClose("get_process_architecture", {"close"}, {"close_err"})

\* read_registry_sz_value, lines 421-440
RegOpen == ApiOpen("read_registry_sz_value", "size")
\* lines 446-455: RegQueryValueExW for the size, then the type and size tests
RegQuerySize ==
    ApiUse("read_registry_sz_value", "size", {"close_err", "close_empty", "value"})
\* lines 483-492: RegQueryValueExW for the data
RegQueryValue == ApiUse("read_registry_sz_value", "value", {"close", "close_err"})
\* lines 458, 466, 474, 494
RegClose == ApiClose("read_registry_sz_value", {"close", "close_empty"}, {"close_err"})

ApiOps ==
    {"list_processes", "get_process_exe_path", "read_process_memory",
     "get_module_base_address", "get_process_architecture",
     "search_memory_for_pattern", "read_registry_sz_value"}

\* ------------------- core::info_extractor::get_key_from_memory_search, the loop
\* line 151: anchor_addr.saturating_sub(2000)
SCAN_BACK == 2000
\* line 126: 100 * 1024 * 1024
SEARCH_SPAN == 100 * 1024 * 1024
\* line 128
anchor_strings == <<"iphone", "android", "ipad">>

\* The module base, the three search answers and what the pointer slots of the
\* target hold.  A slot answer is the pointer read (failed, short, or an
\* address) and the read of KEY_LEN bytes at that address.
ModuleBase == 16 * LOW_ADDR
SearchEnd == ModuleBase + SEARCH_SPAN
SlotLow == [ok |-> TRUE, full |-> TRUE, addr |-> 0, key |-> [ok |-> FALSE, n |-> 0, val |-> 0]]
SlotKey(v) ==
    [ok |-> TRUE, full |-> TRUE, addr |-> LOW_ADDR,
     key |-> [ok |-> TRUE, n |-> KEY_LEN, val |-> v]]
SlotReadFails == [SlotLow EXCEPT !.ok = FALSE]
SlotShort == [SlotLow EXCEPT !.full = FALSE]
SlotKeyFails == [SlotLow EXCEPT !.addr = LOW_ADDR]
SlotKeyShort == [SlotKey(1) EXCEPT !.key.n = KEY_LEN - 1]
Memories ==
    {[a \in {ModuleBase + 3008, ModuleBase + 2992, ModuleBase + 992, SearchEnd - 8,
             ModuleBase - 8, SearchEnd} |->
        IF a = ModuleBase + 3008 THEN m[1]
        ELSE IF a = ModuleBase + 2992 THEN m[2]
        ELSE IF a = ModuleBase + 992 THEN m[3]
        ELSE IF a = SearchEnd - 8 THEN m[4]
        ELSE SlotKey(1)] :
     m \in {SlotLow, SlotKey(2), SlotKey(0)}
           \X {SlotLow, SlotKey(1), SlotReadFails, SlotShort, SlotKeyFails, SlotKeyShort}
           \X {SlotLow, SlotKey(0)} \X {SlotLow, SlotKey(0)}}
SearchResults ==
    {[ok |-> FALSE, addrs |-> <<>>], [ok |-> TRUE, addrs |-> <<>>],
     [ok |-> TRUE, addrs |-> <<ModuleBase + 3000>>],
     [ok |-> TRUE, addrs |-> <<ModuleBase + 3000, SearchEnd + 1000>>]}
    \X {[ok |-> FALSE, addrs |-> <<>>], [ok |-> TRUE, addrs |-> <<>>],
        [ok |-> TRUE, addrs |-> <<ModuleBase + 3008>>]}
    \X {[ok |-> TRUE, addrs |-> <<>>], [ok |-> TRUE, addrs |-> <<ModuleBase + 1000>>]}
HeurInputs ==
    [pointer_size : {4, 8}, module_ok : {TRUE}, results : SearchResults, mem : Memories]
    \cup [pointer_size : {8}, module_ok : {FALSE},
          results : {<<[ok |-> TRUE, addrs |-> <<>>], [ok |-> TRUE, addrs |-> <<>>],
                       [ok |-> TRUE, addrs |-> <<>>]>>},
          mem : {CHOOSE m \in Memories : TRUE}]

\* read_process_memory(pid, slot, pointer_size) and the read behind it
SlotRead(slot) == IF slot \in DOMAIN h_in.mem THEN h_in.mem[slot] ELSE SlotLow

RECURSIVE Dedup(_)
\* line 147: Vec::dedup on the sorted vector
Dedup(s) ==
    IF Len(s) <= 1 THEN s
    ELSE IF s[1] = s[2] THEN Dedup(Tail(s))
    ELSE <<s[1]>> \o Dedup(Tail(s))

\* line 146: sort_unstable
SortAddrs(s) ==
    LET S == {s[i] : i \in 1 .. Len(s)}
        RECURSIVE Place(_, _)
        Place(rest, T) ==
            IF T = {} THEN <<>>
            ELSE LET m == CHOOSE x \in T : \A y \in T : x <= y
                     c == Cardinality({i \in 1 .. Len(s) : s[i] = m})
                 IN  [i \in 1 .. c |-> m] \o Place(rest, T \ {m})
    IN  Place(s, S)

\* lines 150-152: (scan_end_iteration..=scan_start_iteration).rev().step_by(pointer_size)
SlotsOf(anchor_addr, pointer_size) ==
    LET scan_end_iteration == IF anchor_addr >= SCAN_BACK THEN anchor_addr - SCAN_BACK ELSE 0
    IN  [k \in 1 .. ((anchor_addr - scan_end_iteration) \div pointer_size + 1) |->
            anchor_addr - (k - 1) * pointer_size]

\* line 153
SlotInRange(slot, pointer_size) ==
    ~(slot < ModuleBase \/ slot + pointer_size > SearchEnd)

\* lines 154-160: the slot is read, holds a pointer that is not low, and the
\* KEY_LEN-byte read at that pointer succeeds
Dereferenced(slot, pointer_size) ==
    LET r == SlotRead(slot)
    IN  /\ SlotInRange(slot, pointer_size)
        /\ r.ok /\ r.full /\ r.addr >= LOW_ADDR /\ r.key.ok

\* line 161
KeyAccepted(slot, pointer_size) ==
    /\ Dereferenced(slot, pointer_size)
    /\ SlotRead(slot).key.n = KEY_LEN /\ ~AllZero(SlotRead(slot).key)

\* lines 119-129
HeurModule ==
    /\ hpc = "module"
    /\ IF ~h_in.module_ok
       THEN hpc' = "done" /\ hret' = None /\ UNCHANGED h_i
       ELSE hpc' = "search" /\ hret' = hret /\ h_i' = 1
    /\ UNCHANGED <<h_in, found_anchor_addrs, visited, derefs, not_hvars>>

\* lines 131-141: one anchor string
HeurSearch ==
    /\ hpc = "search"
    /\ h_i <= Len(anchor_strings)
    /\ LET r == h_in.results[h_i]
       IN  found_anchor_addrs' =
              IF r.ok /\ r.addrs /= <<>> THEN found_anchor_addrs \o r.addrs
              ELSE found_anchor_addrs
    /\ h_i' = h_i + 1
    /\ UNCHANGED <<h_in, visited, derefs, hpc, hret, not_hvars>>

\* a variant that leaves the anchors in ascending order of iteration
AnchorOrder_Ascending(addrs) ==
    LET s == Dedup(SortAddrs(addrs)) IN [k \in 1 .. Len(s) |-> s[Len(s) + 1 - k]]

\* lines 146-149: sorted, de-duplicated, then iterated with .rev(); entry
\* Len is visited first
AnchorOrder(addrs) == Dedup(SortAddrs(addrs))

\* lines 142-149
HeurSort ==
    /\ hpc = "search"
    /\ h_i > Len(anchor_strings)
    /\ IF found_anchor_addrs = <<>>
       THEN /\ hpc' = "done" /\ hret' = None
            /\ UNCHANGED <<found_anchor_addrs, h_i>>
       ELSE /\ found_anchor_addrs' = AnchorOrder(found_anchor_addrs)
            /\ h_i' = Len(AnchorOrder(found_anchor_addrs))
            /\ hpc' = "anchors" /\ hret' = hret
    /\ UNCHANGED <<h_in, visited, derefs, not_hvars>>

\* lines 149-171: the slot loop of one anchor, up to its return if it has one
HeurAnchor ==
    /\ hpc = "anchors"
    /\ h_i >= 1
    /\ LET anchor_addr == found_anchor_addrs[h_i]
           w == h_in.pointer_size
           slots == SlotsOf(anchor_addr, w)
           hits == {k \in 1 .. Len(slots) : KeyAccepted(slots[k], w)}
           last == IF hits = {} THEN Len(slots)
                   ELSE CHOOSE k \in hits : \A j \in hits : k <= j
       IN  /\ visited' = visited \o [k \in 1 .. last |-> <<anchor_addr, slots[k]>>]
           /\ derefs' = derefs \o
                 SelectSeq([k \in 1 .. last |->
                              [slot |-> slots[k], d |-> Dereferenced(slots[k], w),
                               key |-> SlotRead(slots[k]).key]],
                           LAMBDA e : e.d)
           /\ IF hits = {}
              THEN hpc' = hpc /\ hret' = hret /\ h_i' = h_i - 1
              ELSE /\ hpc' = "done" /\ h_i' = h_i
                   /\ hret' = Some(HexEncode([n |-> KEY_LEN,
                                              val |-> SlotRead(slots[last]).key.val]))
    /\ UNCHANGED <<h_in, found_anchor_addrs, not_hvars>>

\* lines 173-174
HeurNone ==
    /\ hpc = "anchors"
    /\ h_i = 0
    /\ hpc' = "done" /\ hret' = None
    /\ UNCHANGED <<h_in, found_anchor_addrs, h_i, visited, derefs, not_hvars>>

\* ------------------------------------ wx_core::decryption::batch_decrypt
\* The files a batch can meet: one that decrypts under GoodKey(0), one
\* encrypted under another password, one of 16 bytes and one of 15 bytes.
OnePage == <<[a |-> 0, b |-> 1, iv |-> 1]>>
BatchFiles ==
    {Origin(EncryptFile(OnePage, 0, Password32(v)), OnePage, 0, v, NoTamper) : v \in PwIds}
    \cup {Origin([kind |-> "file", len |-> l, pages |-> <<>>], <<>>, 0, 0, NoTamper) :
             l \in {SALT_SIZE - 1, SALT_SIZE}}
BatchKeys ==
    {GoodKey(0), [GoodKey(0) EXCEPT !.kind = "bad"],
     [GoodKey(0) EXCEPT !.hexlen = KEY_HEX_LEN - 2]}
\* The directories at out_path before the call: out_path itself ("root"), a
\* directory under it that corresponds to no directory of db_path ("old"),
\* and the one that corresponds to the subdirectory of db_path ("sub"); each
\* exists or not and holds a file or not.
Dirs == <<"old", "sub", "root">>
Trees ==
    {t \in [{"root", "old", "sub"} -> [exists : BOOLEAN, files : BOOLEAN]] :
        /\ \A d \in DOMAIN t : t[d].files => t[d].exists
        /\ (t["old"].exists \/ t["sub"].exists) => t["root"].exists
        /\ ~t["sub"].files}

\* The files of db_path from index sub_from on lie in its subdirectory, the
\* others directly in db_path.
BatchInputs ==
    {b \in [key : BatchKeys, db : {"file", "dir", "missing", "other"},
            out_exists : BOOLEAN, is_print : BOOLEAN,
            files : UNION {[1 .. n -> BatchFiles] : n \in 0 .. MaxFiles},
            sub_from : 1 .. (MaxFiles + 1), tree : Trees] :
        /\ b.db = "file" => Len(b.files) = 1
        /\ b.db \in {"missing", "other"} => b.files = <<>>
        /\ b.sub_from <= Len(b.files) + 1
        /\ b.db /= "dir" => (b.sub_from = Len(b.files) + 1 /\ ~b.tree["old"].exists
                                /\ ~b.tree["sub"].exists /\ ~b.tree["root"].files)
        /\ b.out_exists = b.tree["root"].exists}

\* lines 133-139: the directory under out_path that takes the output of file n
OutDirOf(n) == IF n >= b_in.sub_from THEN "sub" ELSE "root"

\* line 159: fs::read_dir(dir)?.next().is_none()
IsEmptyDir(t, d) ==
    /\ ~t[d].files
    /\ d = "root" => (~t["old"].exists /\ ~t["sub"].exists)

\* lines 156-165: the first k directories of the contents-first walk, each
\* removed if it is empty when the walk comes to it
RECURSIVE RemoveEmpty(_, _)
RemoveEmpty(t, k) ==
    IF k = 0 THEN t
    ELSE LET u == RemoveEmpty(t, k - 1)
             d == Dirs[k]
         IN  IF u[d].exists /\ IsEmptyDir(u, d)
             THEN [u EXCEPT ![d] = NoDir]
             ELSE u

\* lines 109-119
BatchValidate ==
    /\ bpc = "validate"
    /\ IF KeyLen(b_in.key) /= KEY_HEX_LEN
       THEN bpc' = "done" /\ bresult' = "Key"
       ELSE IF ~b_in.out_exists \/ b_in.db = "missing"
            THEN bpc' = "done" /\ bresult' = "InvalidPath"
            ELSE bpc' = "list" /\ bresult' = bresult
    /\ UNCHANGED <<b_in, out_tree, process_list, results, b_i, env_failed, tally,
                   dcore, not_bvars>>

\* lines 121-147: the one file, or every file WalkDir yields, with
\* create_dir_all of its output directory; an entry error or a failed
\* create_dir_all returns the error at once
BatchList ==
    /\ bpc = "list"
    /\ IF b_in.db = "file"
       THEN /\ process_list' = b_in.files
            /\ bpc' = "decrypt" /\ bresult' = bresult /\ env_failed' = env_failed
            /\ UNCHANGED out_tree
       ELSE IF b_in.db = "dir"
       THEN \E walk_ok \in BOOLEAN, mkdir_ok \in BOOLEAN :
            IF walk_ok /\ (mkdir_ok \/ b_in.files = <<>>)
            THEN /\ process_list' = b_in.files
                 /\ out_tree' = IF b_in.sub_from <= Len(b_in.files)
                                THEN [out_tree EXCEPT !["sub"].exists = TRUE]
                                ELSE out_tree
                 /\ bpc' = "decrypt" /\ bresult' = bresult /\ env_failed' = env_failed
            ELSE /\ bpc' = "done" /\ bresult' = "Io" /\ env_failed' = TRUE
                 /\ UNCHANGED <<process_list, out_tree>>
       ELSE /\ bpc' = "done" /\ bresult' = "InvalidPath"
            /\ UNCHANGED <<process_list, env_failed, out_tree>>
    /\ b_i' = 1
    /\ UNCHANGED <<b_in, results, tally, dcore, not_bvars>>

\* lines 151-152: the call decrypt(key, in_path, out_path)
BatchCallDecrypt ==
    /\ bpc = "decrypt" /\ b_i <= Len(process_list)
    /\ LET x == process_list[b_i]
       IN  /\ fs_in' = x.file
           /\ made' = [plain |-> x.plain, salt |-> x.salt, pw |-> x.pw, tamper |-> x.tamper]
    /\ impl' = "wx" /\ key_hex' = b_in.key /\ out_parent' = TRUE
    /\ out' = [exists |-> FALSE, chunks |-> <<>>] /\ ops' = <<>>
    /\ pc' = "wx_check_paths" /\ result' = "running"
    /\ password_bytes' = NoPassword /\ encrypted_data' = NoData
    /\ aes_key_arr' = NoKey /\ hmac_key_material' = NoMacKey /\ page_i' = 0
    /\ bpc' = "in_decrypt"
    /\ UNCHANGED <<b_in, out_tree, process_list, results, b_i, env_failed, tally,
                   bresult, not_bvars>>

\* line 152: results.push(..) of what decrypt returned; a panic inside
\* decrypt unwinds through batch_decrypt. A file that decrypt created lies in
\* its output directory.
BatchPushResult ==
    /\ bpc = "in_decrypt" /\ pc = "done"
    /\ out_tree' = IF out.exists
                   THEN [out_tree EXCEPT ![OutDirOf(b_i)].files = TRUE]
                   ELSE out_tree
    /\ IF result = "panic"
       THEN /\ bpc' = "done" /\ bresult' = "panic"
            /\ UNCHANGED <<results, b_i>>
       ELSE /\ results' = Append(results, result)
            /\ b_i' = b_i + 1
            /\ bpc' = "decrypt" /\ bresult' = bresult
    /\ UNCHANGED <<b_in, process_list, env_failed, tally, dcore, not_bvars>>

\* lines 156-166: in directory mode, the contents-first walk of out_path that
\* removes every directory found empty; an entry, read_dir or remove_dir error
\* at the directory after the first `done` ones returns the error at once
BatchCleanup ==
    /\ bpc = "decrypt" /\ b_i > Len(process_list)
    /\ IF b_in.db = "dir"
       THEN \E done \in 0 .. Len(Dirs) :
            /\ out_tree' = RemoveEmpty(out_tree, done)
            /\ IF done = Len(Dirs)
               THEN bpc' = "print" /\ bresult' = bresult /\ env_failed' = env_failed
               ELSE bpc' = "done" /\ bresult' = "Io" /\ env_failed' = TRUE
       ELSE /\ bpc' = "print" /\ bresult' = bresult /\ env_failed' = env_failed
            /\ UNCHANGED out_tree
    /\ UNCHANGED <<b_in, process_list, results, b_i, tally, dcore, not_bvars>>

\* lines 171-184: success_count when ok, fail_count otherwise
CountOf(rs, ok) == Len(SelectSeq(rs, LAMBDA r : (r = "Ok") = ok))

\* lines 169-197
BatchReturn ==
    /\ bpc = "print"
    /\ tally' = IF b_in.is_print
                THEN [printed |-> TRUE, total |-> Len(results),
                      success |-> CountOf(results, TRUE),
                      fail |-> CountOf(results, FALSE)]
                ELSE tally
    /\ bpc' = "done" /\ bresult' = "Ok"
    /\ UNCHANGED <<b_in, out_tree, process_list, results, b_i, env_failed, dcore,
                   not_bvars>>

\* ---------------- offset tables (wx_core/utils.rs WxOffs, core/offsets.rs)
\* An integer is the sign, whether the magnitude is 2^63 or more, and the low
\* part of the magnitude: -1, 0, 5 and 2^63.
Ints ==
    {[neg |-> TRUE, big |-> FALSE, m |-> 1], [neg |-> FALSE, big |-> FALSE, m |-> 0],
     [neg |-> FALSE, big |-> FALSE, m |-> 5], [neg |-> FALSE, big |-> TRUE, m |-> 0]}
\* utils.rs line 154: Vec<usize>
IsUsize(n) == ~n.neg
\* offsets.rs line 7: Vec<isize>
IsIsize(n) == ~n.big
Versions == {"3.9.12.51", "3.9.2.23"}
OffsetArrays == UNION {[1 .. n -> Ints] : n \in 0 .. MaxOffs}
Tables == UNION {[vs -> OffsetArrays] : vs \in SUBSET Versions}
TableValues(t) == UNION {{t[v][i] : i \in 1 .. Len(t[v])} : v \in DOMAIN t}

\* A JSON number as serde_json writes and reads an integer: an optional
\* minus sign and the decimal digits of the magnitude.
JsonNumber(n) == [sign |-> IF n.neg THEN "-" ELSE "", digits |-> <<n.big, n.m>>]
\* utils.rs lines 170-174: to_writer_pretty of the flattened map
ToJson(t) ==
    [present |-> TRUE,
     members |-> [v \in DOMAIN t |-> [i \in 1 .. Len(t[v]) |-> JsonNumber(t[v][i])]]]

\* utils.rs line 166: deserializing a number into usize
ParseUsize(j) ==
    IF j.sign = "-" THEN [ok |-> FALSE, n |-> [neg |-> FALSE, big |-> FALSE, m |-> 0]]
    ELSE [ok |-> TRUE, n |-> [neg |-> FALSE, big |-> j.digits[1], m |-> j.digits[2]]]

\* offsets.rs lines 91-93: Number::as_i64, then the cast to isize
ParseI64(j) ==
    IF j.digits[1] THEN [ok |-> FALSE, n |-> [neg |-> FALSE, big |-> FALSE, m |-> 0]]
    ELSE [ok |-> TRUE, n |-> [neg |-> j.sign = "-", big |-> FALSE, m |-> j.digits[2]]]

\* utils.rs line 166 and offsets.rs lines 84-106: every member array is read
\* number by number; one number that does not fit fails the whole load
ParseDoc(doc, int_type) ==
    LET Parse(j) == IF int_type = "usize" THEN ParseUsize(j) ELSE ParseI64(j)
    IN  IF \E v \in DOMAIN doc.members : \E i \in 1 .. Len(doc.members[v]) :
               ~Parse(doc.members[v][i]).ok
        THEN NotLoaded
        ELSE [ok |-> TRUE,
              table |-> [v \in DOMAIN doc.members |->
                           [i \in 1 .. Len(doc.members[v]) |-> Parse(doc.members[v][i]).n]]]

\* utils.rs lines 170-174: WxOffs::to_file
OffsToFile ==
    /\ opc = "write"
    /\ \E create_ok \in BOOLEAN :
        IF create_ok
        THEN o_json' = ToJson(o_table) /\ opc' = "from_file" /\ o_io_failed' = o_io_failed
        ELSE o_json' = o_json /\ opc' = "done" /\ o_io_failed' = TRUE
    /\ UNCHANGED <<o_table, o_origin, o_wx, o_core, not_ovars>>

\* utils.rs lines 164-168: WxOffs::from_file
OffsFromFile ==
    /\ opc = "from_file"
    /\ \E open_ok \in BOOLEAN :
        IF open_ok
        THEN o_wx' = ParseDoc(o_json, "usize") /\ o_io_failed' = o_io_failed
        ELSE o_wx' = NotLoaded /\ o_io_failed' = TRUE
    /\ opc' = "load"
    /\ UNCHANGED <<o_table, o_origin, o_json, o_core, not_ovars>>

\* offsets.rs lines 72-110: load_wx_offsets
OffsLoad ==
    /\ opc = "load"
    /\ \E read_ok \in BOOLEAN :
        IF read_ok
        THEN o_core' = ParseDoc(o_json, "isize") /\ o_io_failed' = o_io_failed
        ELSE o_core' = NotLoaded /\ o_io_failed' = TRUE
    /\ opc' = "done"
    /\ UNCHANGED <<o_table, o_origin, o_json, o_wx, not_ovars>>

\* ------------- core::decryption::decrypt_database_file on worker threads
\* The locals of one call, as the function declares them.
CallStart(key) ==
    [pc |-> "check_input", result |-> "running", key_hex |-> key,
     password_bytes |-> NoPassword, encrypted_data |-> NoData,
     aes_key_arr |-> NoKey, hmac_key_material |-> NoMacKey, page_i |-> 0]

Returned(l, err) == [l EXCEPT !.pc = "done", !.result = err]

\* One step of a call on its locals l, its input file inf and the file outf
\* at its output path; io holds the answers of File::open and File::create.
\* The steps are those of CheckInput .. Finish.
CallStep(l, inf, outf, io) ==
    IF l.pc = "check_input"
    THEN [l |-> IF inf.kind /= "file" THEN Returned(l, "Other_NotFound")
                ELSE [l EXCEPT !.pc = "check_key"],
          out |-> outf]
    ELSE IF l.pc = "check_key"
    THEN [l |-> IF KeyLen(l.key_hex) /= KEY_HEX_LEN THEN Returned(l, "Other_KeyLen")
                ELSE IF ~HexDecodeOK(l.key_hex) THEN Returned(l, "HexDecodingFailed")
                ELSE [l EXCEPT !.pc = "read", !.password_bytes = HexDecode(l.key_hex)],
          out |-> outf]
    ELSE IF l.pc = "read"
    THEN [l |-> IF ~io.open_ok THEN Returned(l, "Io")
                ELSE [l EXCEPT !.pc = "check_len", !.encrypted_data = inf],
          out |-> outf]
    ELSE IF l.pc = "check_len"
    THEN [l |-> IF l.encrypted_data.len < DEFAULT_PAGESIZE THEN Returned(l, "FileTooShort")
                ELSE [l EXCEPT !.pc = "derive"],
          out |-> outf]
    ELSE IF l.pc = "derive"
    THEN LET salt == SaltOf(l.encrypted_data)
             aes == Pbkdf2(l.password_bytes, salt, KDF_ITERS)
         IN  [l |-> [l EXCEPT !.pc = "verify", !.aes_key_arr = aes,
                              !.hmac_key_material =
                                  Pbkdf2(aes, MacSalt(salt), MAC_KDF_ITERS)],
              out |-> outf]
    ELSE IF l.pc = "verify"
    THEN [l |-> IF ~HmacMatches(l.hmac_key_material, l.encrypted_data)
                THEN Returned(l, "HmacVerificationFailed")
                ELSE [l EXCEPT !.pc = "create"],
          out |-> outf]
    ELSE IF l.pc = "create"
    THEN IF ~io.create_ok
         THEN [l |-> Returned(l, "Io"), out |-> outf]
         ELSE [l |-> [l EXCEPT !.pc = "pages", !.page_i = 0],
               out |-> [exists |-> TRUE, chunks |-> <<HeaderChunk>>]]
    ELSE IF l.pc = "pages"
    THEN IF l.page_i >= NumPages(l.encrypted_data)
            \/ l.page_i * DEFAULT_PAGESIZE + DEFAULT_PAGESIZE > l.encrypted_data.len
         THEN [l |-> Returned(l, "Ok"), out |-> outf]
         ELSE IF DataToDecrypt(l.encrypted_data, l.page_i).bytes = 0
         THEN [l |-> [l EXCEPT !.page_i = @ + 1], out |-> outf]
         ELSE IF DataToDecrypt(l.encrypted_data, l.page_i).bytes % AES_BLOCK_SIZE /= 0
         THEN [l |-> Returned(l, "Other_Malformed"), out |-> outf]
         ELSE [l |-> [l EXCEPT !.page_i = @ + 1],
               out |-> [outf EXCEPT !.chunks =
                           @ \o <<DecryptBuffer(l.aes_key_arr, l.encrypted_data, l.page_i),
                                  ReservedOf(l.encrypted_data, l.page_i)>>]]
    ELSE [l |-> l, out |-> outf]

\* a variant in which both calls are given the same output path
output_path_Shared(i) == "out1"

\* line 69: the output_path argument of worker i
output_path(i) == IF i = 1 THEN "out1" ELSE "out2"

TwoPages == <<[a |-> 0, b |-> 1, iv |-> 1], [a |-> 1, b |-> 0, iv |-> 0]>>
WorkerFiles ==
    {EncryptFile(OnePage, 0, Password32(0)), EncryptFile(TwoPages, 1, Password32(0)),
     EncryptFile(OnePage, 0, Password32(1)),
     [kind |-> "file", len |-> SALT_SIZE, pages |-> <<>>]}
WorkerInputs ==
    [file : WorkerFiles, key : {GoodKey(0), [GoodKey(0) EXCEPT !.kind = "bad"]},
     io : [open_ok : BOOLEAN, create_ok : BOOLEAN]]

\* one step of worker i, at any moment it has one to take
WorkerStep(i) ==
    /\ workers[i].pc /= "done"
    /\ LET n == CallStep(workers[i], c_in[i].file, c_files[output_path(i)], c_in[i].io)
       IN  /\ workers' = [workers EXCEPT ![i] = n.l]
           /\ c_files' = [c_files EXCEPT ![output_path(i)] = n.out]
    /\ c_last' = i
    /\ c_switches' = IF c_last \notin {0, i} /\ c_switches < MaxSwitches
                     THEN c_switches + 1 ELSE c_switches
    /\ UNCHANGED <<c_in, not_cvars>>

Worker1 == WorkerStep(1)
Worker2 == WorkerStep(2)

\* ------------- parse_extra_buf (core/db_parser/micro_msg_parser.rs 274-382)
\* Bytes are the numbers 0 .. 255; a string is the sequence of its code points.
\* lines 368-378: the fields in the order they are looked for, with the bytes
\* hex::decode yields for their key and the helper that parses them
Fields ==
    << [name |-> "gender", key |-> <<116, 117, 44, 6>>, kind |-> "i64"],
       [name |-> "signature", key |-> <<70, 207, 16, 196>>, kind |-> "string"],
       [name |-> "country", key |-> <<164, 217, 2, 74>>, kind |-> "string"],
       [name |-> "province", key |-> <<226, 234, 168, 209>>, kind |-> "string"],
       [name |-> "city", key |-> <<29, 2, 91, 191>>, kind |-> "string"],
       [name |-> "company_name", key |-> <<249, 23, 188, 192>>, kind |-> "string"],
       [name |-> "mobile_phone", key |-> <<117, 147, 120, 173>>, kind |-> "string"],
       [name |-> "enterprise_wechat_attr", key |-> <<78, 185, 109, 133>>, kind |-> "string"],
       [name |-> "moments_background_img", key |-> <<129, 174, 25, 180>>, kind |-> "string"],
       [name |-> "remark_img_url1", key |-> <<14, 113, 159, 19>>, kind |-> "string"],
       [name |-> "remark_img_url2", key |-> <<148, 95, 49, 144>>, kind |-> "string"] >>

FieldNames == {Fields[n].name : n \in 1 .. Len(Fields)}
KeyOf(name) == Fields[CHOOSE n \in 1 .. Len(Fields) : Fields[n].name = name].key

\* Option<i64> and Option<String>
NoValue == [some |-> FALSE, v |-> <<>>]
SomeValue(x) == [some |-> TRUE, v |-> x]

\* line 280: ExtraBufInfo::default()
DefaultInfo == [f \in FieldNames |-> NoValue]

\* lines 302, 348: bytes.windows(key.len()).position(|window| window == key),
\* counted from 0;
\* -1 for None
Position(bytes, key) ==
    LET hits == {s \in 0 .. (Len(bytes) - Len(key)) :
                    SubSeq(bytes, s + 1, s + Len(key)) = key}
    IN  IF hits = {} THEN -1 ELSE CHOOSE s \in hits : \A t \in hits : s <= t

\* bytes[i] and &bytes[lo..hi], indices counted from 0, are in range (Rust
\* panics otherwise)
IndexOK(bytes, i) == 0 <= i /\ i < Len(bytes)
RangeOK(bytes, lo, hi) == 0 <= lo /\ lo <= hi /\ hi <= Len(bytes)

\* lines 359-361: val_arr[..length].copy_from_slice(value_bytes) into [0u8; 8];
\* the i64 is held as the 8 little-endian bytes i64::from_le_bytes reads
ValArr(value_bytes) ==
    [n \in 1 .. 8 |-> IF n <= Len(value_bytes) THEN value_bytes[n] ELSE 0]

\* line 322, String::from_utf16: fails on a surrogate that is not part of a pair
IsHighSurrogate(u) == 55296 <= u /\ u <= 56319
IsLowSurrogate(u) == 56320 <= u /\ u <= 57343
Failed == [ok |-> FALSE, s |-> <<>>]
RECURSIVE FromUtf16(_)
FromUtf16(u) ==
    IF u = <<>> THEN [ok |-> TRUE, s |-> <<>>]
    ELSE IF IsHighSurrogate(u[1])
    THEN IF Len(u) >= 2 /\ IsLowSurrogate(u[2])
         THEN LET r == FromUtf16(SubSeq(u, 3, Len(u)))
              IN  [ok |-> r.ok,
                   s |-> <<65536 + (u[1] - 55296) * 1024 + (u[2] - 56320)>> \o r.s]
         ELSE Failed
    ELSE IF IsLowSurrogate(u[1]) THEN Failed
    ELSE LET r == FromUtf16(Tail(u)) IN [ok |-> r.ok, s |-> <<u[1]>> \o r.s]

\* line 328, String::from_utf8: well-formed sequences of one to four bytes only
IsCont(b) == 128 <= b /\ b <= 191
RECURSIVE FromUtf8(_)
FromUtf8(b) ==
    IF b = <<>> THEN [ok |-> TRUE, s |-> <<>>]
    ELSE IF b[1] < 128
    THEN LET r == FromUtf8(Tail(b)) IN [ok |-> r.ok, s |-> <<b[1]>> \o r.s]
    ELSE IF 194 <= b[1] /\ b[1] <= 223
    THEN IF Len(b) >= 2 /\ IsCont(b[2])
         THEN LET r == FromUtf8(SubSeq(b, 3, Len(b)))
              IN  [ok |-> r.ok, s |-> <<(b[1] - 192) * 64 + (b[2] - 128)>> \o r.s]
         ELSE Failed
    ELSE IF 224 <= b[1] /\ b[1] <= 239
    THEN IF Len(b) >= 3 /\ IsCont(b[2]) /\ IsCont(b[3])
         THEN LET cp == (b[1] - 224) * 4096 + (b[2] - 128) * 64 + (b[3] - 128)
                  r == FromUtf8(SubSeq(b, 4, Len(b)))
              IN  IF cp < 2048 \/ IsHighSurrogate(cp) \/ IsLowSurrogate(cp) THEN Failed
                  ELSE [ok |-> r.ok, s |-> <<cp>> \o r.s]
         ELSE Failed
    ELSE IF 240 <= b[1] /\ b[1] <= 244
    THEN IF Len(b) >= 4 /\ IsCont(b[2]) /\ IsCont(b[3]) /\ IsCont(b[4])
         THEN LET cp == (b[1] - 240) * 262144 + (b[2] - 128) * 4096
                            + (b[3] - 128) * 64 + (b[4] - 128)
                  r == FromUtf8(SubSeq(b, 5, Len(b)))
              IN  IF cp < 65536 \/ cp > 1114111 THEN Failed
                  ELSE [ok |-> r.ok, s |-> <<cp>> \o r.s]
         ELSE Failed
    ELSE Failed

\* lines 318-321: value_bytes.chunks_exact(2) as little-endian u16
Utf16Chars(value_bytes) ==
    [n \in 1 .. (Len(value_bytes) \div 2) |->
        value_bytes[2 * n - 1] + 256 * value_bytes[2 * n]]

\* What a helper returns: Ok(value) or a panic on an index out of range.
Parsed(x) == [panic |-> FALSE, value |-> x]
Panicked == [panic |-> TRUE, value |-> NoValue]

\* lines 300-344
find_and_parse_string(bytes, key) ==
    LET start_index == Position(bytes, key)
        data_start == start_index + Len(key)
    IN  IF start_index < 0 THEN Parsed(NoValue)
        ELSE IF ~(data_start + 3 <= Len(bytes)) THEN Parsed(NoValue)
        ELSE IF ~IndexOK(bytes, data_start + 1) \/ ~IndexOK(bytes, data_start + 2)
        THEN Panicked
        ELSE LET len == bytes[data_start + 2] + 256 * bytes[data_start + 3]
                 value_start == data_start + 3
             IN  IF ~(value_start + len <= Len(bytes)) THEN Parsed(NoValue)
                 ELSE IF ~RangeOK(bytes, value_start, value_start + len) THEN Panicked
                 ELSE LET value_bytes == SubSeq(bytes, value_start + 1, value_start + len)
                          s16 == FromUtf16(Utf16Chars(value_bytes))
                          s8 == FromUtf8(value_bytes)
                      IN  IF s16.ok THEN Parsed(SomeValue(s16.s))
                          ELSE IF s8.ok THEN Parsed(SomeValue(s8.s))
                          ELSE Parsed(NoValue)

\* lines 346-366
find_and_parse_i64(bytes, key) ==
    LET start_index == Position(bytes, key)
        data_start == start_index + Len(key)
    IN  IF start_index < 0 THEN Parsed(NoValue)
        ELSE IF ~(data_start + 2 <= Len(bytes)) THEN Parsed(NoValue)
        ELSE IF ~IndexOK(bytes, data_start + 1) THEN Panicked
        ELSE LET length == bytes[data_start + 2]
                 value_start == data_start + 2
             IN  IF ~(value_start + length <= Len(bytes) /\ length <= 8)
                 THEN Parsed(NoValue)
                 ELSE IF ~RangeOK(bytes, value_start, value_start + length) THEN Panicked
                 ELSE Parsed(SomeValue(ValArr(
                          SubSeq(bytes, value_start + 1, value_start + length))))

\* The buffers: up to MaxPieces pieces laid end to end, with up to MaxCut
\* bytes cut off the end. A piece is a field as the format writes it (key,
\* type id, length, value) together with the value it carries, or other bytes.
RECURSIVE Concat(_)
Concat(ps) == IF ps = <<>> THEN <<>> ELSE Head(ps).bytes \o Concat(Tail(ps))

IntPiece(name, value_bytes) ==
    [name |-> name,
     bytes |-> KeyOf(name) \o <<1, Len(value_bytes)>> \o value_bytes,
     value |-> ValArr(value_bytes)]
StringPiece(name, value_bytes) ==
    [name |-> name,
     bytes |-> KeyOf(name) \o <<2, Len(value_bytes) % 256, Len(value_bytes) \div 256>>
                   \o value_bytes,
     value |-> FromUtf16(Utf16Chars(value_bytes)).s]
OtherBytes(b) == [name |-> "other", bytes |-> b, value |-> <<>>]

Pieces ==
    { IntPiece("gender", <<1>>),
      StringPiece("signature", <<72, 0, 105, 0>>),
      StringPiece("signature", <<116, 117, 44, 6>>),
      StringPiece("country", <<67, 0, 78, 0>>),
      OtherBytes(<<0>>),
      OtherBytes(<<255, 255, 255>>),
      OtherBytes(KeyOf("city") \o <<2, 2, 0, 0, 216>>),
      OtherBytes(KeyOf("city") \o <<2, 4, 0, 65, 216, 128, 0>>) }

ExtraBufs ==
    {NoBuf}
    \cup {b \in [present : {TRUE}, cut : 0 .. MaxCut,
                  pieces : UNION {[1 .. n -> Pieces] : n \in 0 .. MaxPieces}] :
             b.cut <= Len(Concat(b.pieces))}

\* the bytes of the slice passed as extra_buf_bytes
BytesOf(buf) == SubSeq(Concat(buf.pieces), 1, Len(Concat(buf.pieces)) - buf.cut)

\* lines 275-280
ParseStart ==
    /\ epc = "start"
    /\ IF ~extra_buf.present \/ BytesOf(extra_buf) = <<>>
       THEN epc' = "done" /\ eret' = "OkNone" /\ UNCHANGED <<e_info, e_i>>
       ELSE epc' = "fields" /\ eret' = eret /\ e_info' = DefaultInfo /\ e_i' = 1
    /\ UNCHANGED <<extra_buf, not_evars>>

\* lines 368-378: one assignment info.<field> = find_and_parse_..(bytes, key)?
ParseField ==
    /\ epc = "fields" /\ e_i <= Len(Fields)
    /\ LET f == Fields[e_i]
           r == IF f.kind = "i64"
                THEN find_and_parse_i64(BytesOf(extra_buf), f.key)
                ELSE find_and_parse_string(BytesOf(extra_buf), f.key)
       IN  IF r.panic
           THEN epc' = "done" /\ eret' = "panic" /\ UNCHANGED <<e_info, e_i>>
           ELSE /\ e_info' = [e_info EXCEPT ![f.name] = r.value]
                /\ e_i' = e_i + 1 /\ epc' = epc /\ eret' = eret
    /\ UNCHANGED <<extra_buf, not_evars>>

\* line 381: Ok(Some(info))
ParseReturn ==
    /\ epc = "fields" /\ e_i > Len(Fields)
    /\ epc' = "done" /\ eret' = "OkSome"
    /\ UNCHANGED <<extra_buf, e_info, e_i, not_evars>>

\* ------------------------------------------------- vocabulary of the claims
\* The key material and the page HMAC as the file format defines them.
FormatAesKey(f, pw) == Pbkdf2(pw, f.pages[1][1], KDF_ITERS)
FormatMacKey(f, pw) == Pbkdf2(FormatAesKey(f, pw), MacSalt(f.pages[1][1]), MAC_KDF_ITERS)
PageMacValid(f, i, pw) ==
    f.pages[i][4] = HmacSha1(FormatMacKey(f, pw), <<CoveredOf(f.pages[i], i), LE32(i)>>)

\* The input has at least one whole page whose HMAC verifies under pw.
FirstPageVerifies(f, pw) ==
    /\ f.kind = "file" /\ f.len >= DEFAULT_PAGESIZE /\ Len(f.pages) >= 1
    /\ PageMacValid(f, 1, pw)

\* Some create or write of the output path has happened.
OutputTouched ==
    out.exists \/ \E n \in 1 .. Len(ops) : ops[n] \in {"create", "write"}

\* The bytes of the output file: the chunks written, concatenated.
RECURSIVE Content(_)
Content(chunks) ==
    IF chunks = <<>> THEN [bytes |-> 0, segs |-> <<>>]
    ELSE LET rest == Content(Tail(chunks))
         IN  [bytes |-> Head(chunks).bytes + rest.bytes,
              segs |-> Head(chunks).segs \o rest.segs]

\* The key string decodes (as core decodes it) to the password the input
\* was encrypted under.
SameKey ==
    /\ KeyLen(key_hex) = KEY_HEX_LEN /\ HexDecodeOK(key_hex)
    /\ HexDecode(key_hex) = Password32(made.pw)

Done == pc = "done"

\* C1: the output path is created or written only after the page-0 HMAC of
\* the input has verified under the decoded key; a run that ends on a
\* missing input, a rejected key, a too-short file or an HMAC mismatch never
\* touches it (decrypt_database_file and wx_core decrypt).
NoOutputBeforeVerification ==
    OutputTouched =>
        /\ password_bytes /= NoPassword
        /\ FirstPageVerifies(fs_in, password_bytes)
        /\ pc \notin {"check_input", "check_key", "read", "check_len", "derive", "verify",
                     "wx_check_paths", "wx_check_key", "wx_read", "wx_check_len",
                     "wx_derive", "wx_verify"}

\* C1 witness: a run that ended on an HMAC mismatch, the output untouched.
W_MismatchNoOutput ==
    /\ Done /\ result \in {"HmacVerificationFailed", "Key"}
    /\ encrypted_data.len >= DEFAULT_PAGESIZE
    /\ ~FirstPageVerifies(fs_in, password_bytes)
    /\ ~OutputTouched

\* The input is a file valid under made.pw of which one segment of page 0 in
\* the HMAC-covered region (ciphertext span or IV, bytes 16 .. 4064) was
\* altered, and it is decrypted by decrypt_database_file under that key.
TamperedCovered ==
    /\ impl = "core" /\ SameKey
    /\ made.tamper.page = 1 /\ made.tamper.seg \in {2, 3}

\* C2: an input that verifies under a key and is then altered anywhere in
\* the HMAC-covered region of page 0 never gets past the verification: the
\* run creates no output and, unless reading the input failed, ends with
\* HmacVerificationFailed.
TamperDetected ==
    TamperedCovered =>
        /\ pc \notin {"create", "pages"}
        /\ (Done /\ result /= "Io" => result = "HmacVerificationFailed")

\* C2 witness: a tampered IV of page 0 was rejected.
W_TamperedIvRejected ==
    /\ TamperedCovered /\ made.tamper.seg = 3
    /\ Done /\ result = "HmacVerificationFailed"

\* The output the format prescribes for page i (1-based) of f under pw.
ExpectedPage(f, pw, i) ==
    LET pg == f.pages[i]
        span == IF i = 1 THEN <<pg[2]>> ELSE <<pg[1], pg[2]>>
    IN  CbcDecrypt(FormatAesKey(f, pw), pg[3], span) \o <<pg[3], pg[4], pg[5]>>

RECURSIVE ExpectedPages(_, _, _)
ExpectedPages(f, pw, i) ==
    IF i > Len(f.pages) THEN <<>>
    ELSE ExpectedPage(f, pw, i) \o ExpectedPages(f, pw, i + 1)

\* C3: when decrypt_database_file succeeds on an input of N whole pages the
\* output is the 16-byte header followed, for pages 0 .. N-1 in order, by the
\* CBC decryption of the page's span and the page's 48-byte trailer
\* unchanged; the output has 4096 * N bytes.
EndToEndLayout ==
    (impl = "core" /\ Done /\ result = "Ok" /\ fs_in.len = DEFAULT_PAGESIZE * Len(fs_in.pages)) =>
        /\ Content(out.chunks).bytes = DEFAULT_PAGESIZE * Len(fs_in.pages)
        /\ Content(out.chunks).segs =
              <<SQLITE_FILE_HEADER>> \o ExpectedPages(fs_in, HexDecode(key_hex), 1)

\* C3 witness: a successful decryption of a two-page input.
W_TwoPagesDecrypted ==
    /\ impl = "core" /\ Done /\ result = "Ok"
    /\ fs_in.len = DEFAULT_PAGESIZE * 2 /\ Len(out.chunks) = 5

\* The input was encrypted from made.plain and not altered afterwards.
Untampered ==
    /\ fs_in.kind = "file" /\ Len(made.plain) >= 1 /\ made.tamper = NoTamper

\* C4: an input encrypted from plaintext pages under (key, salt, IVs) and
\* decrypted by decrypt_database_file under the same key succeeds (unless an
\* I/O operation fails) and the non-trailer region of every output page is
\* the plaintext it was encrypted from.
RoundTrip ==
    (impl = "core" /\ Untampered /\ SameKey /\ Done /\ result /= "Io") =>
        /\ result = "Ok"
        /\ Len(out.chunks) = 1 + 2 * Len(made.plain)
        /\ \A i \in 1 .. Len(made.plain) :
              out.chunks[2 * i].segs =
                 IF i = 1 THEN <<made.plain[i].b>>
                 ELSE <<made.plain[i].a, made.plain[i].b>>

\* C4 witness: a two-page round trip with non-zero IVs and plaintext.
W_RoundTripDone ==
    /\ impl = "core" /\ Untampered /\ SameKey /\ Done /\ result = "Ok"
    /\ Len(made.plain) = 2
    /\ made.plain[2].iv /= 0 /\ made.plain[2].a /= 0 /\ made.plain[1].iv /= 0

\* The run of decrypt_database_file got a decoded key and a whole first page.
ReachedVerification ==
    /\ impl = "core" /\ password_bytes /= NoPassword
    /\ encrypted_data.len >= DEFAULT_PAGESIZE

\* C5 as stated: the HMAC of every page is verified, so a successful
\* decryption implies that every page's stored HMAC matches.
EveryPageHmacVerified ==
    (impl = "core" /\ Done /\ result = "Ok") =>
        \A i \in 1 .. Len(fs_in.pages) : PageMacValid(fs_in, i, password_bytes)

\* C5 amended: the HMAC of page 0 is verified: a mismatch there ends the run
\* with HmacVerificationFailed and no output, and a successful run implies
\* that page 0's stored HMAC matches.
FirstPageHmacVerified ==
    /\ (ReachedVerification /\ ~FirstPageVerifies(fs_in, password_bytes)) =>
          /\ ~OutputTouched
          /\ (Done /\ result /= "Io" => result = "HmacVerificationFailed")
    /\ (impl = "core" /\ Done /\ result = "Ok") =>
          FirstPageVerifies(fs_in, password_bytes)

\* C5 witness: page 0's stored HMAC was altered and the run was rejected.
W_FirstPageMacRejected ==
    /\ ReachedVerification /\ Done /\ result = "HmacVerificationFailed"
    /\ made.tamper.page = 1 /\ made.tamper.seg = 4 /\ SameKey

\* C6 as stated: after a failed decryption no output exists at the output
\* path.
NoPartialOutput ==
    (Done /\ result /= "Ok") => ~out.exists

\* Key-encoding errors of the two decrypt functions.
KeyErrors == {"Other_KeyLen", "HexDecodingFailed", "Key"}

\* C7 as stated: a key string that is not 64 lowercase hex characters is
\* rejected with a key-encoding error before any file-system operation.
KeyCheckedBeforeIo ==
    (Done /\ ~WellEncoded(key_hex)) => (result \in KeyErrors /\ ops = <<>>)

\* C8 as stated: an input shorter than one page, once read, makes both
\* functions return a typed too-short error, without panic and without
\* output.
ShortFileTypedError ==
    (Done /\ fs_in.kind = "file" /\ fs_in.len < DEFAULT_PAGESIZE
          /\ password_bytes /= NoPassword /\ result /= "Io") =>
        (result \in {"FileTooShort", "Database"} /\ ~OutputTouched)

\* One entry of the result has both candidates.
BothCandidates(e) == e.offset_cand.some /\ e.memory_cand.some

\* C9 as stated: when both strategies produce a candidate the stored key is
\* the heuristic candidate, whatever the candidates are.
HeuristicPreferred ==
    \A n \in 1 .. Len(all_user_info) :
        BothCandidates(all_user_info[n]) =>
            all_user_info[n].key = all_user_info[n].memory_cand

\* C10 as stated: when neither strategy produces a candidate for a process,
\* key resolution fails with KeyNotFound instead of reporting success with an
\* absent key.
NeitherFailsKeyNotFound ==
    (rpc = "done" /\ \E n \in 1 .. Len(all_user_info) :
          /\ ~all_user_info[n].offset_cand.some
          /\ ~all_user_info[n].memory_cand.some) =>
        rresult = "KeyNotFound"

\* C11: when exactly one strategy produces a candidate, the stored key is
\* that candidate (offset only: the offset candidate; heuristic only: the
\* heuristic candidate).
SingleCandidateUsed ==
    \A n \in 1 .. Len(all_user_info) :
        LET e == all_user_info[n]
        IN  /\ (e.offset_cand.some /\ ~e.memory_cand.some) => e.key = e.offset_cand
            /\ (e.memory_cand.some /\ ~e.offset_cand.some) => e.key = e.memory_cand

\* C11 witness: one process resolved by the offset strategy alone and one by
\* the heuristic alone, neither with the literal key.
W_SingleCandidates ==
    /\ \E n \in 1 .. Len(all_user_info) :
          /\ all_user_info[n].offset_cand.some /\ ~all_user_info[n].memory_cand.some
          /\ all_user_info[n].key.v /= expected_key_str
    /\ \E n \in 1 .. Len(all_user_info) :
          /\ all_user_info[n].memory_cand.some /\ ~all_user_info[n].offset_cand.some
          /\ all_user_info[n].key.v /= expected_key_str

\* The PageCipher state a run of decrypt_database_file is in: Unopened until
\* the file bytes (salt included) are in memory, SaltRead until both keys are
\* derived, KeyDerived until the first page's HMAC matched, FirstPageVerified
\* until the header is written, Streaming during the page loop.
FormatAesKeyOf(data, pw) == Pbkdf2(pw, SaltOf(data), KDF_ITERS)

PageState ==
    IF pc \in {"check_input", "check_key", "read"} THEN "Unopened"
    ELSE IF pc \in {"check_len", "derive"} THEN "SaltRead"
    ELSE IF pc = "verify" THEN "KeyDerived"
    ELSE IF pc = "create" THEN "FirstPageVerified"
    ELSE IF pc = "pages" THEN "Streaming"
    ELSE IF result = "Ok" THEN "Done"
    ELSE "Failed"

StateOrder ==
    <<"Unopened", "SaltRead", "KeyDerived", "FirstPageVerified", "Streaming", "Done">>

StateRank(s) == CHOOSE n \in 1 .. Len(StateOrder) : StateOrder[n] = s

PageCipherStep ==
    LET s == PageState
        t == PageState'
    IN  /\ s \in {"Done", "Failed"} => t = s
        /\ t /= s => \/ t = "Failed"
                     \/ StateRank(t) = StateRank(s) + 1
        /\ (t = "KeyDerived" /\ s /= t) =>
              /\ aes_key_arr' = FormatAesKeyOf(encrypted_data, password_bytes)
              /\ hmac_key_material' /= NoMacKey
        /\ (t = "FirstPageVerified" /\ s /= t) =>
              HmacMatches(hmac_key_material, encrypted_data)
        /\ out' /= out => s \in {"FirstPageVerified", "Streaming"}
        /\ (t = "Done" /\ s /= t) =>
              /\ page_i = NumPages(encrypted_data)
              /\ Len(out.chunks) = 1 + 2 * NumPages(encrypted_data)

\* C18: a run of decrypt_database_file moves only along Unopened, SaltRead,
\* KeyDerived, FirstPageVerified, Streaming, Done, one state at a time, with
\* Failed reachable from every non-terminal state and Done and Failed
\* terminal; keys are derived on entering KeyDerived, the HMAC matched on
\* entering FirstPageVerified, output is written only from FirstPageVerified
\* on, and Done is entered only after every page was streamed.
PageCipherStateOrder == [][impl = "core" => PageCipherStep]_vars

\* C18 witness: a two-page file went through every state to Done.
W_StreamedToDone ==
    /\ impl = "core" /\ PageState = "Done"
    /\ NumPages(encrypted_data) = 2 /\ page_i = 2
    /\ aes_key_arr /= NoKey /\ out.exists

\* -------------------------------------------------------- win_api claims
ScanDone == api_op = "search_memory_for_pattern" /\ apc = "done"

\* C13: the scan never holds more than max_occurrences addresses, and the
\* addresses it holds are strictly increasing.
ScanBound ==
    api_op = "search_memory_for_pattern" =>
        /\ Len(found_addresses) <= scan.max
        /\ \A i \in 1 .. Len(found_addresses) - 1 :
              found_addresses[i] < found_addresses[i + 1]

\* C13 witness: a scan that stopped at max_occurrences = 2 with a third
\* occurrence left, its two results coming from different chunk reads.
W_ScanCapped ==
    /\ ScanDone /\ aresult = "Ok" /\ scan.max = 2
    /\ Len(found_addresses) = 2 /\ Cardinality(scan.occ) > 2
    /\ found_addresses[2] - found_addresses[1] > BUFFER_LEN - PageBytes

\* the occurrences lying wholly inside one committed readable region and
\* inside [start, end), lowest first
ExpectedOccurrences ==
    Ascending({a \in scan.occ :
        /\ scan.start <= a /\ a + scan.plen <= scan.end
        /\ \E k \in 1 .. Len(scan.regions) :
              /\ scan.regions[k].readable
              /\ RegionBase(scan.regions, k) <= a
              /\ a + scan.plen <= RegionEnd(scan.regions, k)})

\* C14: a scan without failed queries or reads that ended below
\* max_occurrences found every occurrence of the pattern in the readable
\* regions of the range, one straddling two chunk reads included.
ScanComplete ==
    (ScanDone /\ aresult = "Ok" /\ ~io_failed /\ scan.plen /= 0
        /\ Len(found_addresses) < scan.max) =>
    \A n \in 1 .. Len(ExpectedOccurrences) :
        \E i \in 1 .. Len(found_addresses) : found_addresses[i] = ExpectedOccurrences[n]

\* C15: the scan returns an error exactly when the process could not be
\* opened; an empty pattern, a failed query and a failed read all end in Ok.
ScanErrOnlyOnOpen ==
    ScanDone => (aresult = "Err" <=> (scan.plen /= 0 /\ hopens = 0))

\* C15 witness: a scan whose chunk read failed returned Ok with nothing found
\* although the pattern occurs in the target.
W_ScanFailedReadOk ==
    /\ ScanDone /\ aresult = "Ok" /\ io_failed
    /\ found_addresses = <<>> /\ scan.occ /= {} /\ scan.max > 0

\* C16: a handle is never used or closed unless open, never closed more often
\* than opened, and when the function has returned every opened handle has
\* been closed exactly once.
HandleReleased ==
    /\ ~hbad /\ hcloses <= hopens /\ hopens <= 1
    /\ hstate = "open" <=> hopens = hcloses + 1
    /\ apc = "done" => hcloses = hopens

\* C16 witness: list_processes returned its Process32FirstW error with the
\* snapshot closed.
W_ErrorPathClosed ==
    /\ api_op = "list_processes" /\ apc = "done" /\ aresult = "Err"
    /\ hopens = 1 /\ hcloses = 1 /\ hstate = "closed"

\* ------------------------------------------------- heuristic search claims
\* The order of the claim: anchors of all three searches from the highest
\* down, and under an anchor A the slots A, A - w, ... down to A - 2000.
AllAnchors ==
    UNION {{h_in.results[n].addrs[i] : i \in 1 .. Len(h_in.results[n].addrs)} :
           n \in {j \in 1 .. Len(h_in.results) : h_in.results[j].ok}}
SlotsUnder(A) ==
    {s \in {A - k * h_in.pointer_size : k \in 0 .. (SCAN_BACK \div h_in.pointer_size)} :
        s >= 0}
IsSlotUnder(s, A) ==
    /\ 0 <= s /\ s <= A /\ A - s <= SCAN_BACK
    /\ (A - s) % h_in.pointer_size = 0
Before(p, q) == p[1] > q[1] \/ (p[1] = q[1] /\ p[2] > q[2])
KeyCandidates ==
    {p \in UNION {{<<A, s>> : s \in SlotsUnder(A)} : A \in AllAnchors} :
        KeyAccepted(p[2], h_in.pointer_size)}
BlockHex(slot) == HexEncode([n |-> KEY_LEN, val |-> SlotRead(slot).key.val])

VisitedInOrder ==
    /\ visited /= <<>> =>
          /\ \A A \in AllAnchors : A <= visited[1][1]
          /\ visited[1][2] = visited[1][1]
    /\ \A i \in 1 .. Len(visited) - 1 :
          LET p == visited[i]
              q == visited[i + 1]
          IN  \/ q[1] = p[1] /\ q[2] = p[2] - h_in.pointer_size
              \/ /\ q[1] < p[1] /\ q[2] = q[1]
                 /\ ~IsSlotUnder(p[2] - h_in.pointer_size, p[1])
                 /\ ~\E A \in AllAnchors : q[1] < A /\ A < p[1]
    /\ \A i \in 1 .. Len(visited) :
          visited[i][1] \in AllAnchors /\ IsSlotUnder(visited[i][2], visited[i][1])

\* C12: anchors are visited from the highest address down and the slots of an
\* anchor from the anchor down in steps of the pointer width; the returned
\* key is the first dereferenced non-zero 32-byte block in that order, and no
\* block is dereferenced after it.
SearchOrder ==
    /\ VisitedInOrder
    /\ (hpc = "done" /\ h_in.module_ok) =>
          LET cands == KeyCandidates
          IN  IF cands = {} THEN hret = None
              ELSE LET first == CHOOSE p \in cands : \A q \in cands : p = q \/ Before(p, q)
                   IN  /\ hret = Some(BlockHex(first[2]))
                       /\ visited[Len(visited)] = first
                       /\ derefs[Len(derefs)].slot = first[2]
    /\ \A i \in 1 .. Len(derefs) - 1 :
          derefs[i].key.n /= KEY_LEN \/ AllZero(derefs[i].key)

\* C12 witness: the key came from the second anchor visited, after an
\* all-zero block had been dereferenced and passed over, while a slot later
\* in the order holds a different key.
W_SecondAnchorKey ==
    /\ hpc = "done" /\ hret.some
    /\ Len(derefs) >= 2 /\ AllZero(derefs[1].key)
    /\ visited[1][1] /= visited[Len(visited)][1]
    /\ \E p \in KeyCandidates : BlockHex(p[2]) /= hret.v

\* ------------------------------------------------------------ batch claims
\* C17: a batch whose arguments were accepted and whose directory walks did
\* not fail attempts every file, returns Ok with one result per file in
\* processing order, and prints a tally whose successes and failures add up
\* to the number of files.
BatchIndependence ==
    (bpc = "done" /\ bresult \notin {"Key", "InvalidPath"} /\ ~env_failed) =>
        /\ bresult = "Ok"
        /\ Len(results) = Len(b_in.files)
        /\ tally.printed => /\ tally.total = Len(b_in.files)
                            /\ tally.success + tally.fail = tally.total

\* ----------------------------------------------------- offset table claims
\* C19: when no file operation failed, both loaders return the persisted
\* table: the same versions with the same offsets in the same order.
OffsetTableRoundTrip ==
    (opc = "done" /\ ~o_io_failed) =>
        /\ o_wx = [ok |-> TRUE, table |-> o_table]
        /\ o_core = [ok |-> TRUE, table |-> o_table]

\* --------------------------------------------------------- worker claims
RECURSIVE RunAlone(_, _, _, _)
\* the call run to its end with nothing else running
RunAlone(l, inf, outf, io) ==
    IF l.pc = "done" THEN [l |-> l, out |-> outf]
    ELSE LET n == CallStep(l, inf, outf, io) IN RunAlone(n.l, inf, n.out, io)

Alone(i) == RunAlone(CallStart(c_in[i].key), c_in[i].file, NoFile, c_in[i].io)

ResolvedKeyLength ==
    \A n \in 1 .. Len(all_user_info) :
        LET e == all_user_info[n]
        IN  /\ e.key.some =>
                /\ e.key.v.kind = "lower" /\ e.key.v.ws = 0
                /\ KeyLen(e.key.v) = KEY_HEX_LEN
                /\ HexDecodeOK(e.key.v)
                /\ HexDecode(e.key.v).n = KEY_LEN
                /\ HexDecode(e.key.v).n = KEY_SIZE
            /\ e.offset_short => ~e.offset_cand.some
            /\ e.memory_short => ~e.memory_cand.some

\* C21 witness: one process whose offset read came back short while the
\* heuristic resolved a key, and one where the heuristic read came back short
\* while the offset strategy resolved a key.
W_ShortReadNoKey ==
    /\ \E n \in 1 .. Len(all_user_info) :
          /\ all_user_info[n].offset_short /\ all_user_info[n].key.some
          /\ all_user_info[n].key = all_user_info[n].memory_cand
    /\ \E n \in 1 .. Len(all_user_info) :
          /\ all_user_info[n].memory_short /\ all_user_info[n].key.some
          /\ all_user_info[n].key = all_user_info[n].offset_cand

\* C27: for a process whose version string has no entry in the offset table
\* (the fallback "unknown" included) neither key strategy yields a candidate
\* and the key of its result is absent.
KeyGatedOnOffsetTable ==
    /\ (rpc \in {"keys", "reconcile"} /\ ~cur.version_known) =>
          /\ ~cur.dll_base_address_opt /\ cur.pointer_size_opt = 0
          /\ ~key_from_offset_method.some /\ ~key_from_memory_search_method.some
    /\ \A n \in 1 .. Len(all_user_info) :
          ~all_user_info[n].version_known =>
              /\ ~all_user_info[n].offset_cand.some
              /\ ~all_user_info[n].memory_cand.some
              /\ ~all_user_info[n].key.some

\* C27 witness: two WeChat.exe processes reported, the first with a version
\* in the table and a key, the second with a version that is not in it.
W_UnknownVersionNoKey ==
    /\ rresult = "Ok" /\ Len(all_user_info) = 2
    /\ all_user_info[1].version_known /\ all_user_info[1].key.some
    /\ ~all_user_info[2].version_known /\ ~all_user_info[2].key.some

\* C23: in wx_core decrypt the password handed to the key derivation has
\* exactly KEY_SIZE bytes, and a key string of KEY_HEX_LEN characters whose
\* trimmed hex part is shorter does not get past the key check.
WxPasswordLength ==
    (impl = "wx" /\ pc \in {"wx_read", "wx_check_len", "wx_derive"}) =>
        /\ password_bytes.n = KEY_SIZE
        /\ Trim(key_hex).hexlen = KEY_HEX_LEN

\* C25: for every page of the loop the span handed to AES-CBC is not empty and
\* a whole number of 16-byte blocks (4096-16-48 bytes for page 0, 4096-48 for
\* the others), so decrypt_database_file never skips a page for an empty span
\* and never returns the malformed-page error.
BlockAligned ==
    /\ result /= "Other_Malformed"
    /\ (impl = "core" /\ pc = "pages") =>
          /\ Len(out.chunks) = 1 + 2 * page_i
          /\ page_i < NumPages(encrypted_data) =>
                LET span == DataToDecrypt(encrypted_data, page_i)
                IN  /\ span.bytes > 0
                    /\ span.bytes % AES_BLOCK_SIZE = 0
                    /\ span.bytes = IF page_i = 0
                                    THEN DEFAULT_PAGESIZE - SALT_SIZE - RESERVED_SIZE
                                    ELSE DEFAULT_PAGESIZE - RESERVED_SIZE

\* C25 witness: the loop has emitted page 0 and is about to take the span of
\* page 1.
W_SecondSpanTaken ==
    /\ impl = "core" /\ pc = "pages" /\ page_i = 1
    /\ NumPages(encrypted_data) > 1
    /\ Len(out.chunks) = 3
    /\ out.chunks[2].bytes = DEFAULT_PAGESIZE - SALT_SIZE - RESERVED_SIZE

\* The number of bytes written to a file, chunk by chunk.
RECURSIVE TotalBytes(_)
TotalBytes(chunks) ==
    IF chunks = <<>> THEN 0 ELSE Head(chunks).bytes + TotalBytes(Tail(chunks))

\* C29: a run of decrypt_database_file that got past verification ends with
\* Ok unless a write fails, also when L mod 4096 bytes follow the last whole
\* page; a run that ends with Ok on an input of L bytes has L >= 4096, has
\* emitted floor(L/4096) pages and has written 4096 * floor(L/4096) bytes.
TrailingBytesDropped ==
    impl = "core" =>
        /\ out.exists => result \in {"running", "Ok", "Io"}
        /\ (pc = "done" /\ result = "Ok") =>
              /\ fs_in.len >= DEFAULT_PAGESIZE
              /\ page_i = fs_in.len \div DEFAULT_PAGESIZE
              /\ Len(out.chunks) = 1 + 2 * (fs_in.len \div DEFAULT_PAGESIZE)
              /\ TotalBytes(out.chunks) = DEFAULT_PAGESIZE * (fs_in.len \div DEFAULT_PAGESIZE)

\* C29 witness: Ok on an input of two whole pages followed by 4095 bytes.
W_TailDropped ==
    /\ impl = "core" /\ pc = "done" /\ result = "Ok"
    /\ fs_in.len = 3 * DEFAULT_PAGESIZE - 1
    /\ TotalBytes(out.chunks) = 2 * DEFAULT_PAGESIZE

\* What decrypt_database_file returns and writes for the key string and the
\* input file of the run, File::open succeeding and File::create succeeding
\* when the parent directory of the output exists.
CoreOutcome ==
    RunAlone(CallStart(key_hex), fs_in, NoFile,
             [open_ok |-> TRUE, create_ok |-> out_parent])

\* A finished call of wx_core decrypt in which no read or
\* write failed succeeded exactly when decrypt_database_file succeeds on the
\* same key string and input file.
SameVerdict ==
    (impl = "wx" /\ pc = "done" /\ result \notin {"running", "Io"}) =>
        ((result = "Ok") <=> (CoreOutcome.l.result = "Ok"))

\* C26: the two implementations agree: same verdict, and on success the
\* output file of wx_core decrypt holds the bytes decrypt_database_file
\* writes (header, then every decrypted page with its trailer).
ImplementationsAgree ==
    /\ SameVerdict
    /\ (impl = "wx" /\ pc = "done" /\ result = "Ok") => out = CoreOutcome.out

\* C28: every address the scan holds lies in the requested range: it is not
\* below start_address and the occurrence ends at or before end_address.
ScanInRange ==
    api_op = "search_memory_for_pattern" =>
        \A i \in 1 .. Len(found_addresses) :
            /\ scan.start <= found_addresses[i]
            /\ found_addresses[i] + scan.plen <= scan.end

\* The scan is inside one of its loops.
ScanLooping == api_op = "search_memory_for_pattern" /\ apc \in {"outer", "inner"}

\* Each pass through the outer loop that goes on to another pass has moved
\* current_address up, and each pass through the inner loop that goes on to
\* another pass has moved address_in_region_to_scan up.
CursorStep ==
    /\ (ScanLooping /\ apc' = "outer" /\ (apc = "inner" \/ mem_info' /= mem_info
                                                        \/ current_address' /= current_address))
          => current_address' > current_address
    /\ (apc = "outer" /\ apc' = "outer") => current_address' > current_address
    /\ (apc = "inner" /\ apc' = "inner")
          => /\ address_in_region_to_scan' > address_in_region_to_scan
             /\ address_in_region_to_scan' <= mem_info.base + mem_info.size
    /\ (apc = "outer" /\ apc' = "inner")
          => /\ address_in_region_to_scan' = current_address
             /\ current_address < mem_info'.base + mem_info'.size

\* A scan that has started returns.
ScanReturns == (api_op = "search_memory_for_pattern") ~> ScanDone

\* C24: search_memory_for_pattern terminates on every address range and every
\* region map of regions of positive size: the cursors of both loops strictly
\* increase from pass to pass, and a scan that has started returns.
ScanTerminates ==
    /\ [][api_op = "search_memory_for_pattern" => CursorStep]_vars
    /\ ScanReturns

\* C24 witness: the scan returned after walking two regions to the end of the
\* map, the last one a readable region of three pages read as two chunks.
W_ScanWalkedAll ==
    /\ ScanDone /\ aresult = "Ok" /\ ~io_failed
    /\ Len(scan.regions) = 2 /\ current_address = Mapped(scan.regions)
    /\ mem_info.readable /\ mem_info.size = 3 * PageBytes
    /\ address_in_region_to_scan = mem_info.base + mem_info.size

\* C30: no directory that existed at or under out_path before the call, and
\* never out_path itself, is removed by batch_decrypt.
CleanupFrame ==
    \A d \in DOMAIN b_in.tree : b_in.tree[d].exists => out_tree[d].exists

\* ------------------------------------------------------------ parser claims
\* Where piece k of the buffer begins, and whether the buffer holds all of it,
\* or its key but not all of the rest.
PieceStart(k) == Len(Concat(SubSeq(extra_buf.pieces, 1, k - 1)))
PieceEnd(k) == PieceStart(k) + Len(extra_buf.pieces[k].bytes)
Complete(k) == PieceEnd(k) <= Len(BytesOf(extra_buf))
Truncated(k) ==
    /\ ~Complete(k)
    /\ PieceStart(k) + Len(KeyOf(extra_buf.pieces[k].name)) <= Len(BytesOf(extra_buf))
\* piece k is a field, and the only piece of that field
TheField(k) ==
    /\ extra_buf.pieces[k].name \in FieldNames
    /\ \A j \in 1 .. Len(extra_buf.pieces) :
          j /= k => extra_buf.pieces[j].name /= extra_buf.pieces[k].name

\* The return value of parse_extra_buf: Ok(None) for an absent or empty
\* buffer, Ok(Some(info)) for every other one.
ParseExtraBufReturns ==
    epc = "done" /\ eret /= "running" =>
        eret = IF ~extra_buf.present \/ BytesOf(extra_buf) = <<>>
               THEN "OkNone" ELSE "OkSome"

\* C22: parse_extra_buf returns Ok(None) for an absent or empty buffer and
\* Ok(Some(info)) for every other one, never an error or a panic; in the
\* returned info a field that is complete in the buffer has its value and a
\* field cut short by the end of the buffer is None, whatever the other
\* pieces of the buffer are.
ParseExtraBufRobust ==
    /\ ParseExtraBufReturns
    /\ (epc = "done" /\ eret = "OkSome") =>
          \A k \in 1 .. Len(extra_buf.pieces) :
              TheField(k) =>
                  /\ Complete(k) => e_info[extra_buf.pieces[k].name]
                                        = SomeValue(extra_buf.pieces[k].value)
                  /\ Truncated(k) => e_info[extra_buf.pieces[k].name] = NoValue

\* --------------------------------------------------------- specification
Init ==
    /\ \E x \in Inputs :
         /\ fs_in = x.file
         /\ made = [plain |-> x.plain, salt |-> x.salt, pw |-> x.pw, tamper |-> x.tamper]
    /\ key_hex \in KeyStrings
    /\ \E c \in {<<"core", TRUE>>, <<"wx", TRUE>>, <<"wx", FALSE>>} :
         /\ impl = c[1] /\ out_parent = c[2]
         /\ pc = IF c[1] = "core" THEN "check_input" ELSE "wx_check_paths"
    /\ out = [exists |-> FALSE, chunks |-> <<>>]
    /\ ops = <<>> /\ result = "running"
    /\ password_bytes = NoPassword /\ encrypted_data = NoData
    /\ aes_key_arr = NoKey /\ hmac_key_material = NoMacKey /\ page_i = 0
    /\ IdleExcept("decrypt")

Next ==
    \/ CheckInput
    \/ CheckKey
    \/ ReadInput
    \/ CheckLength
    \/ DeriveKeys
    \/ VerifyFirstPage
    \/ CreateOutput
    \/ DecryptPage
    \/ Finish
    \/ WxCheckPaths
    \/ WxCheckKey
    \/ WxReadInput
    \/ WxCheckLength
    \/ WxDeriveKeys
    \/ WxVerify
    \/ WxCreateOutput

Spec == Init /\ [][Next]_vars

InitResolver ==
    /\ IdleExcept("resolver")
    /\ procs = <<>> /\ cur = NoProc
    /\ key_from_offset_method = None /\ key_from_memory_search_method = None
    /\ all_user_info = <<>> /\ rpc = "list" /\ rresult = "running"

NextResolver ==
    \/ ListProcesses
    \/ SkipProcess
    \/ ExePathFails
    \/ Probe
    \/ KeyStrategies
    \/ Reconcile
    \/ ReturnInfo

SpecResolver == InitResolver /\ [][NextResolver]_vars


InitWinApi ==
    /\ IdleExcept("win_api")
    /\ api_op \in ApiOps /\ apc = "open" /\ aresult = "running"
    /\ hstate = "none" /\ hopens = 0 /\ hcloses = 0 /\ hbad = FALSE /\ n_iter = 0
    /\ scan \in (IF api_op = "search_memory_for_pattern" THEN ScanInputs ELSE {NoScan})
    /\ found_addresses = <<>> /\ current_address = 0 /\ mem_info = NoRegion
    /\ address_in_region_to_scan = 0 /\ io_failed = FALSE

NextWinApi ==
    \/ SearchOpen
    \/ SearchQuery
    \/ SearchChunk
    \/ SearchClose
    \/ LpSnapshot
    \/ LpFirst
    \/ LpNext
    \/ LpClose
    \/ GpeOpen
    \/ GpeQuery
    \/ GpeClose
    \/ RpmOpen
    \/ RpmRead
    \/ RpmClose
    \/ GmbSnapshot
    \/ GmbFirst
    \/ GmbNext
    \/ GmbClose
    \/ GpaOpen
    \/ GpaIsWow64
    \/ GpaClose
    \/ RegOpen
    \/ RegQuerySize
    \/ RegQueryValue
    \/ RegClose

SpecWinApi == InitWinApi /\ [][NextWinApi]_vars


InitHeuristic ==
    /\ IdleExcept("heuristic")
    /\ h_in \in HeurInputs
    /\ found_anchor_addrs = <<>> /\ h_i = 0 /\ visited = <<>> /\ derefs = <<>>
    /\ hpc = "module" /\ hret = None

NextHeuristic ==
    \/ HeurModule
    \/ HeurSearch
    \/ HeurSort
    \/ HeurAnchor
    \/ HeurNone

SpecHeuristic == InitHeuristic /\ [][NextHeuristic]_vars


InitBatch ==
    /\ IdleExcept("batch")
    /\ b_in \in BatchInputs /\ out_tree = b_in.tree
    /\ process_list = <<>> /\ results = <<>> /\ b_i = 0 /\ env_failed = FALSE
    /\ tally = NoTally /\ bpc = "validate" /\ bresult = "running"

NextBatch ==
    \/ BatchValidate
    \/ BatchList
    \/ BatchCallDecrypt
    \/ WxCheckPaths
    \/ WxCheckKey
    \/ WxReadInput
    \/ WxCheckLength
    \/ WxDeriveKeys
    \/ WxVerify
    \/ WxCreateOutput
    \/ BatchPushResult
    \/ BatchCleanup
    \/ BatchReturn

SpecBatch == InitBatch /\ [][NextBatch]_vars


\* A table held by WxOffs has unsigned offsets; a WX_OFFS.json on disk holds
\* the signed offsets of the format.
InitOffsets ==
    /\ IdleExcept("offsets")
    /\ o_table \in Tables
    /\ \/ /\ o_origin = "to_file" /\ \A n \in TableValues(o_table) : IsUsize(n)
          /\ o_json = NoDoc /\ opc = "write"
       \/ /\ o_origin = "on_disk" /\ \A n \in TableValues(o_table) : IsIsize(n)
          /\ o_json = ToJson(o_table) /\ opc = "from_file"
    /\ o_wx = NotLoaded /\ o_core = NotLoaded /\ o_io_failed = FALSE

NextOffsets ==
    \/ OffsToFile
    \/ OffsFromFile
    \/ OffsLoad

SpecOffsets == InitOffsets /\ [][NextOffsets]_vars


InitWorkers ==
    /\ IdleExcept("workers")
    /\ c_in \in [1 .. 2 -> WorkerInputs]
    /\ workers = [i \in 1 .. 2 |-> CallStart(c_in[i].key)]
    /\ c_files = [p \in {"out1", "out2"} |-> NoFile]
    /\ c_last = 0 /\ c_switches = 0

NextWorkers ==
    \/ Worker1
    \/ Worker2

SpecWorkers == InitWorkers /\ [][NextWorkers]_vars



\* The scan runs on one thread that is not suspended for ever: a step that can
\* be taken is taken.
SpecScanLive == InitWinApi /\ [][NextWinApi]_vars /\ WF_vars(NextWinApi)



InitParser ==
    /\ IdleExcept("parser")
    /\ extra_buf \in ExtraBufs
    /\ e_info = NoInfo /\ e_i = 0 /\ epc = "start" /\ eret = "running"

NextParser ==
    \/ ParseStart
    \/ ParseField
    \/ ParseReturn

SpecParser == InitParser /\ [][NextParser]_vars

====
